---- MODULE Spec2Model ----
(***************************************************************************)
(* Event ingestion core of the Stacks blockchain API                       *)
(* (src/event-stream/event-server.ts).                                     *)
(*                                                                         *)
(* Specifications:                                                         *)
(*   Spec          the HTTP event endpoint and the promise queue: three    *)
(*                 concurrent POST requests, the raw-event append, the     *)
(*                 typed handlers and their store calls.                   *)
(*   SpecHandlers  the same actions with requests to every route.          *)
(*   SpecBlock     one /new_block or /new_microblocks message with its     *)
(*                 transactions and events, through                        *)
(*                 parseDataStoreTxEventData and the store call of its     *)
(*                 handler.                                                *)
(*   SpecBurn      one /new_burn_block message through                     *)
(*                 handleBurnBlockMessage and its two store calls.         *)
(*   SpecDrop      one /drop_mempool_tx message through                    *)
(*                 handleDroppedMempoolTxsMessage and its store call.      *)
(*   SpecMempool   a sequence of /new_mempool_tx and /drop_mempool_tx      *)
(*                 messages against the mempool table of the store.        *)
(*   SpecMode      getApiMode over the environment variables.              *)
(*   SpecInit      init and initApp (src/index.ts): the store connection,  *)
(*                 the event server, the chain ID check, the API server,   *)
(*                 and the node posting to the event server meanwhile.     *)
(*                                                                         *)
(* One step of Spec is one turn of the Node.js event loop: a request body  *)
(* has been read (Arrive) or a store promise settles (StoreReturn), and    *)
(* every synchronous statement and promise continuation that follows runs  *)
(* to completion inside the step. A store call is committed by the store   *)
(* when its promise resolves, and has changed nothing when it rejects.     *)
(***************************************************************************)
EXTENDS Integers, Sequences, FiniteSets, TLC

\* Number of concurrent POST requests in one behaviour of Spec.
MaxRequests == 3

\* Number of concurrent POST requests in one behaviour of SpecHandlers.
MaxHandlerRequests == 2

\* Number of events in one /new_block or /new_microblocks message of SpecBlock.
MaxEvents == 3

\* A queue that runs two tasks at a time.
concurrencyTwo == 1 + 1

\* new PQueue({ concurrency: 1 })
concurrency == 1

\* The six POST routes bound to a typed handler.
Routes ==
  { "/new_block", "/new_burn_block", "/new_mempool_tx",
    "/drop_mempool_tx", "/attachments/new", "/new_microblocks" }

\* Request paths the node may post to: the routes and one path with no route.
Paths == Routes \cup { "/unknown" }

\* Request bodies: valid = the typed handler's decoding and validation of the
\* body succeeds (it reaches its first store call); ~valid = it throws first.
Requests ==
  { [path |-> p, valid |-> v] : p \in Paths, v \in BOOLEAN }
    \ { [path |-> "/unknown", valid |-> FALSE] }

\* The requests of Spec: a route whose handler makes one store call, the route
\* whose handler makes two, and a path with no route. The queue wrappers of
\* the six routes are the same code but for the handler they call.
QueueRequests ==
  { b \in Requests : b.path \in { "/new_block", "/new_burn_block", "/unknown" } }

VARIABLES
  req,        \* per request, in arrival order: path, body, progress, response
  queue,      \* processorQueue: tasks added and not yet started
  running,    \* tasks started and not yet settled, with the store call in flight
  rawLog,     \* the store's raw event records, in append order
  typedStore, \* the store's typed updates, in commit order
  submitted,  \* history: every task handed to processorQueue.add, in order
  started,    \* history: every task the queue has started, in order
  storeLog,   \* history: every store call's begin and end, in order
  getResp,    \* the status a GET / request was answered with, 0 before it
  attMsg,     \* SpecAttachments: the /attachments/new message
  attPc,      \* SpecAttachments: "received", "storing", "done"
  attCalls,   \* SpecAttachments: the batches passed to updateAttachments
  attStore,   \* SpecAttachments: the batches the store has committed
  attResp,    \* SpecAttachments: the response status, 0 before it is sent
  blockMsg,   \* SpecBlock: the message, its parsed transactions and events
  blockPc,    \* SpecBlock: "received", "storing" (store call in flight), "done"
  blockCall,  \* SpecBlock: the store method called and the bundle passed to it
  blockStore, \* SpecBlock: the bundles the store has committed
  blockError, \* SpecBlock: what the handler threw, or "none"
  blockResp,  \* SpecBlock: the response status, 0 before the response
  burnMsg,    \* SpecBurn: the burn-block message
  burnPc,     \* SpecBurn: "received", "rewards", "slotHolders", "done"
  burnCalls,  \* SpecBurn: the store calls the handler has made, in order
  burnStore,  \* SpecBurn: the calls the store has committed
  burnError,  \* SpecBurn: what the handler threw, or "none"
  burnResp,   \* SpecBurn: the response status, 0 before the response
  payload,    \* SpecMempool: the /new_mempool_tx payload that is posted again
  mempoolMsg, \* the mempool message being handled, and the handler's progress
  mempoolCall,\* the store call of the handler of mempoolMsg
  mempool,    \* the store's mempool table, in insertion order
  mempoolOnce,\* the table of a store that takes `payload` once only
  posts,      \* SpecMempool: how often the store has committed `payload`
  handled,    \* SpecMempool: the number of messages received so far
  env,        \* SpecMode: process.env
  apiMode,    \* what getApiMode returned, "none" before the call
  gitInfoMissing,    \* SpecInit: isProdEnv && !fs.existsSync('.git-info')
  configuredChainID, \* SpecInit: getApiConfiguredChainID()
  networkChainId,    \* SpecInit: what getStacksNodeChainID returned, or "none"
  initPc,      \* SpecInit: the await at which init stands, or how it ended
  db,          \* SpecInit: "none", "OfflineDummyStore" or "PgDataStore"
  eventServer, \* SpecInit: "none" or "listening"
  apiServer,   \* SpecInit: "none" or "listening"
  exitCode,    \* SpecInit: the code of process.exit, -1 while the process runs
  ingested     \* SpecInit: per message the event server has persisted,
               \* whether the chain ID check had passed by then

queueVars ==
  <<req, queue, running, rawLog, typedStore, submitted, started, storeLog,
    getResp>>

blockVars ==
  <<blockMsg, blockPc, blockCall, blockStore, blockError, blockResp>>

burnVars ==
  <<burnMsg, burnPc, burnCalls, burnStore, burnError, burnResp>>

mempoolVars ==
  <<payload, mempoolMsg, mempoolCall, mempool, mempoolOnce, posts, handled>>

initVars ==
  <<gitInfoMissing, configuredChainID, networkChainId, initPc, db,
    eventServer, apiServer, exitCode, ingested>>

modeVars == <<env, apiMode, initVars>>

attachmentVars == <<attMsg, attPc, attCalls, attStore, attResp>>

vars ==
  <<queueVars, blockVars, burnVars, mempoolVars, modeVars, attachmentVars>>

----------------------------------------------------------------------------
\* A block handler that commits the block and its microblocks in two calls.
StoreMethodsBlockInTwoCalls(path) ==
  CASE path = "/new_block"       -> << "update", "updateMicroblocks" >>
    [] path = "/new_microblocks" -> << "updateMicroblocks" >>
    [] path = "/new_burn_block"  ->
         << "updateBurnchainRewards", "updateBurnchainRewardSlotHolders" >>
    [] path = "/new_mempool_tx"  -> << "updateMempoolTxs" >>
    [] path = "/drop_mempool_tx" -> << "dropMempoolTxs" >>
    [] path = "/attachments/new" -> << "updateAttachments" >>
    [] OTHER                     -> << >>

\* The store methods a typed handler awaits, in order.
StoreMethods(path) ==
  CASE path = "/new_block"       -> << "update" >>
    [] path = "/new_microblocks" -> << "updateMicroblocks" >>
    [] path = "/new_burn_block"  ->
         << "updateBurnchainRewards", "updateBurnchainRewardSlotHolders" >>
    [] path = "/new_mempool_tx"  -> << "updateMempoolTxs" >>
    [] path = "/drop_mempool_tx" -> << "dropMempoolTxs" >>
    [] path = "/attachments/new" -> << "updateAttachments" >>
    [] OTHER                     -> << >>

Task(r, k) == [req |-> r, kind |-> k]

Call(r, k, c) == [req |-> r, kind |-> k, call |-> c]

Method(st, r, k, c) ==
  IF k = "raw" THEN "storeRawEventRequest" ELSE StoreMethods(st.req[r].path)[c]

LogEntry(st, r, k, c, e) ==
  [req |-> r, kind |-> k, method |-> Method(st, r, k, c), ev |-> e]

\* The current state as one record, for the operators below.
State ==
  [ req |-> req, queue |-> queue, running |-> running, rawLog |-> rawLog,
    typedStore |-> typedStore, submitted |-> submitted, started |-> started,
    storeLog |-> storeLog ]

\* A route that answers 200 whether its handler returned or threw.
SettleTypedAlwaysOk(st, r, ok) ==
  [st EXCEPT !.req[r].typed = IF ok THEN "ok" ELSE "fail",
             !.req[r].resp  = 200,
             !.req[r].post  = st.typedStore]

\* A route whose catch takes the request's raw record out of the log again.
SettleTypedUndoesRaw(st, r, ok) ==
  [st EXCEPT !.req[r].typed = IF ok THEN "ok" ELSE "fail",
             !.req[r].resp  = IF ok THEN 200 ELSE 500,
             !.req[r].post  = st.typedStore,
             !.rawLog = IF ok THEN @
                        ELSE SelectSeq(@, LAMBDA e : e.payload # r)]

\* The typed handler's promise settles: the route's try/catch answers
\* 200 or 500.
SettleTyped(st, r, ok) ==
  [st EXCEPT !.req[r].typed = IF ok THEN "ok" ELSE "fail",
             !.req[r].resp  = IF ok THEN 200 ELSE 500,
             !.req[r].post  = st.typedStore]

\* A task begins store call c.
BeginCall(st, r, k, c) ==
  [st EXCEPT !.running  = @ \cup { Call(r, k, c) },
             !.storeLog = Append(@, LogEntry(st, r, k, c, "begin"))]

\* A queue that serves the task added last.
NextIndexLast(q) == Len(q)

\* The queue's order of service: the task that is started next.
NextIndex(q) == 1

Without(q, i) == SubSeq(q, 1, i - 1) \o SubSeq(q, i + 1, Len(q))

\* PQueue starts queued tasks while fewer than `concurrency` are running.
\* A started task runs its handler up to its first await: the raw-event task
\* and a typed handler with a valid body begin their first store call; a
\* typed handler with an invalid body throws, its promise rejects, and the
\* queue goes on to the next task.
RECURSIVE tryToStartAnother(_)
tryToStartAnother(st) ==
  IF st.queue = << >> \/ Cardinality(st.running) >= concurrency
  THEN st
  ELSE LET i  == NextIndex(st.queue)
           t  == st.queue[i]
           r  == t.req
           s1 == [st EXCEPT !.queue = Without(@, i),
                            !.started = Append(@, t)]
       IN IF t.kind = "raw"
          THEN tryToStartAnother(BeginCall(s1, r, "raw", 1))
          ELSE LET s2 == [s1 EXCEPT !.req[r].typed = "running",
                                    !.req[r].pre = s1.typedStore]
               IN IF st.req[r].valid
                  THEN tryToStartAnother(BeginCall(s2, r, "typed", 1))
                  ELSE tryToStartAnother(SettleTyped(s2, r, FALSE))

\* processorQueue.add(...): the task joins the end of the queue.
add(st, t) ==
  tryToStartAnother([st EXCEPT !.queue = Append(@, t),
                               !.submitted = Append(@, t)])

\* An intercept that goes on to the route although the raw-event append failed.
AfterRawEventUnchecked(st, r, ok) ==
  LET s1 == [st EXCEPT !.req[r].raw = IF ok THEN "ok" ELSE "fail"]
  IN IF s1.req[r].path \in Routes
     THEN add([s1 EXCEPT !.req[r].typed = "queued"], Task(r, "typed"))
     ELSE [s1 EXCEPT !.req[r].resp = 404]

\* A route that answers 200 as soon as it has added the typed task, without
\* awaiting it.
AfterRawEventFireAndForget(st, r, ok) ==
  IF ~ok THEN [st EXCEPT !.req[r].raw = "fail", !.req[r].resp = 500]
  ELSE LET s1 == [st EXCEPT !.req[r].raw = "ok"]
       IN IF s1.req[r].path \in Routes
          THEN add([s1 EXCEPT !.req[r].typed = "queued", !.req[r].resp = 200],
                   Task(r, "typed"))
          ELSE [s1 EXCEPT !.req[r].resp = 404]

\* The POST * intercept after `await messageHandler.handleRawEventRequest`:
\* on success next() runs the route, which adds the typed task, or the final
\* POST * answers 404; on failure the error goes to express, which answers 500.
AfterRawEvent(st, r, ok) ==
  IF ~ok THEN [st EXCEPT !.req[r].raw = "fail", !.req[r].resp = 500]
  ELSE LET s1 == [st EXCEPT !.req[r].raw = "ok"]
       IN IF s1.req[r].path \in Routes
          THEN add([s1 EXCEPT !.req[r].typed = "queued"], Task(r, "typed"))
          ELSE [s1 EXCEPT !.req[r].resp = 404]

\* A queue that does not go on to the next task after a task has rejected.
AfterTypedCallStalled(st, r, c, ok) ==
  IF ~ok THEN SettleTyped(st, r, FALSE)
  ELSE IF c < Len(StoreMethods(st.req[r].path))
       THEN BeginCall(st, r, "typed", c + 1)
       ELSE tryToStartAnother(SettleTyped(st, r, TRUE))

\* The typed handler after one of its store calls has returned: it awaits
\* its next store call, or returns, or (the call failed) throws.
AfterTypedCall(st, r, c, ok) ==
  IF ~ok THEN tryToStartAnother(SettleTyped(st, r, FALSE))
  ELSE IF c < Len(StoreMethods(st.req[r].path))
       THEN BeginCall(st, r, "typed", c + 1)
       ELSE tryToStartAnother(SettleTyped(st, r, TRUE))

\* A store call returns: on success the store has committed it.
Commit(st, r, k, c, ok) ==
  IF ~ok THEN st
  ELSE IF k = "raw"
       THEN [st EXCEPT !.rawLog =
               Append(@, [path |-> st.req[r].path, payload |-> r])]
       ELSE [st EXCEPT !.typedStore =
               Append(@, [method |-> Method(st, r, k, c), req |-> r])]

StoreReturned(st, t, ok) ==
  LET r  == t.req
      s1 == Commit([st EXCEPT !.running = @ \ { t },
                              !.storeLog = Append(@,
                                 LogEntry(st, r, t.kind, t.call,
                                          IF ok THEN "ok" ELSE "fail"))],
                   r, t.kind, t.call, ok)
  IN IF t.kind = "raw"
     THEN AfterRawEvent(tryToStartAnother(s1), r, ok)
     ELSE AfterTypedCall(s1, r, t.call, ok)

Becomes(st) ==
  /\ req' = st.req
  /\ queue' = st.queue
  /\ running' = st.running
  /\ rawLog' = st.rawLog
  /\ typedStore' = st.typedStore
  /\ submitted' = st.submitted
  /\ started' = st.started
  /\ storeLog' = st.storeLog
  /\ UNCHANGED <<getResp, blockVars, burnVars, mempoolVars, modeVars,
                 attachmentVars>>

NewRequest(b) ==
  [ path |-> b.path, valid |-> b.valid, raw |-> "pending", typed |-> "none",
    resp |-> 0, pre |-> << >>, post |-> << >> ]

----------------------------------------------------------------------------
NoCall == [method |-> "none", txs |-> << >>]

NoMsg == [txs |-> << >>, events |-> << >>]

QueueInit ==
  /\ req = << >>
  /\ queue = << >>
  /\ running = { }
  /\ rawLog = << >>
  /\ typedStore = << >>
  /\ submitted = << >>
  /\ started = << >>
  /\ storeLog = << >>
  /\ getResp = 0

AttachmentInit(m) ==
  /\ attMsg = m
  /\ attPc = "received"
  /\ attCalls = << >>
  /\ attStore = << >>
  /\ attResp = 0

BlockInit(m) ==
  /\ blockMsg = m
  /\ blockPc = "received"
  /\ blockCall = NoCall
  /\ blockStore = << >>
  /\ blockError = "none"
  /\ blockResp = 0

NoBurnMsg ==
  [ burn_block_hash |-> "none", burn_block_height |-> 0,
    burn_amount |-> [whole |-> 0, tenths |-> 0],
    reward_recipients |-> << >>, reward_slot_holders |-> << >> ]

BurnInit(m) ==
  /\ burnMsg = m
  /\ burnPc = "received"
  /\ burnCalls = << >>
  /\ burnStore = << >>
  /\ burnError = "none"
  /\ burnResp = 0

NoMempoolMsg ==
  [ kind |-> "none", body |-> << >>, pc |-> "done", calls |-> 0,
    error |-> "none", resp |-> 0 ]

NoMempoolCall == [method |-> "none"]

\* table: the rows the mempool table holds when the first message arrives.
MempoolInit(p, table) ==
  /\ payload = p
  /\ mempoolMsg = NoMempoolMsg
  /\ mempoolCall = NoMempoolCall
  /\ mempool = table
  /\ mempoolOnce = table
  /\ posts = 0
  /\ handled = 0

NoEnv ==
  [ STACKS_API_MODE |-> "unset", STACKS_READ_ONLY_MODE |-> "unset",
    STACKS_API_OFFLINE_MODE |-> "unset" ]

\* The state of the process when init is called.
AppInit(missing, chainId) ==
  /\ gitInfoMissing = missing
  /\ configuredChainID = chainId
  /\ networkChainId = "none"
  /\ initPc = "start"
  /\ db = "none"
  /\ eventServer = "none"
  /\ apiServer = "none"
  /\ exitCode = -1
  /\ ingested = << >>

ModeInit(e) ==
  /\ env = e
  /\ apiMode = "none"
  /\ AppInit(FALSE, "none")

\* The parts of the state that a specification does not use stay as they are
\* here.
BurnIdle == BurnInit(NoBurnMsg)

AttachmentIdle == AttachmentInit(<< >>)

MempoolIdle == MempoolInit(<< >>, << >>)

ModeIdle == ModeInit(NoEnv)

Init ==
  /\ QueueInit /\ AttachmentIdle /\ BlockInit(NoMsg) /\ BurnIdle /\ MempoolIdle
  /\ ModeIdle

\* A POST request's body has been parsed and the POST * intercept runs: it
\* adds the raw-event task and awaits it.
Received(b) ==
  Becomes(add([State EXCEPT !.req = Append(@, NewRequest(b))],
              Task(Len(req) + 1, "raw")))

Arrive ==
  /\ Len(req) < MaxRequests
  /\ \E b \in QueueRequests : Received(b)

ArriveAny ==
  /\ Len(req) < MaxHandlerRequests
  /\ \E b \in Requests : Received(b)

\* The store call in flight returns, successfully or with an error.
StoreReturn ==
  \E t \in running : \E ok \in BOOLEAN :
    Becomes(StoreReturned(State, t, ok))

Next == Arrive \/ StoreReturn

Spec == Init /\ [][Next]_vars

NextHandlers == ArriveAny \/ StoreReturn

SpecHandlers == Init /\ [][NextHandlers]_vars

\* Number of POST requests that arrive in SpecLive.
MaxLiveRequests == 2

ArriveLive ==
  /\ Len(req) < MaxLiveRequests
  /\ \E b \in QueueRequests : Received(b)

NextLive == ArriveLive \/ StoreReturn

\* The endpoint with a store whose every call returns: a store call in flight
\* does not stay in flight for ever.
SpecLive == Init /\ [][NextLive]_vars /\ WF_vars(StoreReturn)

\* app.get('/'): the event server answers 200 with its status; no
\* middleware before it awaits anything, and the POST * intercept is not run.
GetRoot ==
  /\ getResp = 0
  /\ getResp' = 200
  /\ UNCHANGED <<req, queue, running, rawLog, typedStore, submitted, started,
                 storeLog, blockVars, burnVars, mempoolVars, modeVars,
                 attachmentVars>>

NextEndpoint == ArriveAny \/ StoreReturn \/ GetRoot

\* The endpoint with POST requests to every path and a GET / request.
SpecEndpoint == Init /\ [][NextEndpoint]_vars

----------------------------------------------------------------------------
\* parseDataStoreTxEventData and the handlers that call it (SpecBlock).

\* The block-relative event_index values of a message's events.
EventIndexes == 0..2

TxIds == { "T1", "T2" }

\* The parsed transactions of a message (parsedTxs): T1 alone, or T1 and T2.
\* With T1 alone, an event of T2 has no owner among them.
\* `payload` is the kind of the transaction's payload; here none is a
\* contract call.
ParsedTxs ==
  { << [tx_id |-> "T1", tx_index |-> 0, payload |-> "TokenTransfer"] >>,
    << [tx_id |-> "T1", tx_index |-> 0, payload |-> "TokenTransfer"],
       [tx_id |-> "T2", tx_index |-> 1, payload |-> "TokenTransfer"] >> }

\* The events of a message. A committed event of a known type has any owner,
\* either of two kinds (they fall into the first and the fourth bucket of the
\* merge) and any original index; a committed event of an unknown type and an
\* uncommitted event have any owner. `topic` is what a contract log reports;
\* here no log is one of the name system.
EventInputs ==
  { [txid |-> t, committed |-> TRUE, type |-> y, event_index |-> i,
     topic |-> "print"] :
      t \in TxIds, y \in { "ContractEvent", "StxTransferEvent" },
      i \in EventIndexes }
  \cup { [txid |-> t, committed |-> TRUE, type |-> "UnknownEvent",
          event_index |-> 0, topic |-> "print"] : t \in TxIds }
  \cup { [txid |-> t, committed |-> FALSE, type |-> y, event_index |-> 0,
          topic |-> "print"] :
           t \in TxIds, y \in { "StxTransferEvent", "UnknownEvent" } }

Messages ==
  [ txs : ParsedTxs,
    events : UNION { [1..n -> EventInputs] : n \in 0..MaxEvents } ]

\* A switch whose default branch files the event with the stx events.
BucketOfLenient(type) ==
  CASE type = "ContractEvent" -> "contractLogEvents"
    [] type = "StxLockEvent" -> "stxLockEvents"
    [] type \in { "FtTransferEvent", "FtMintEvent", "FtBurnEvent" }
         -> "ftEvents"
    [] type \in { "NftTransferEvent", "NftMintEvent", "NftBurnEvent" }
         -> "nftEvents"
    [] OTHER -> "stxEvents"

\* switch (event.type): the bucket of DataStoreTxEventData an event of this
\* CoreNodeEventType is pushed to, "none" for the default branch.
BucketOf(type) ==
  CASE type = "ContractEvent" -> "contractLogEvents"
    [] type = "StxLockEvent" -> "stxLockEvents"
    [] type \in { "StxTransferEvent", "StxMintEvent", "StxBurnEvent" }
         -> "stxEvents"
    [] type \in { "FtTransferEvent", "FtMintEvent", "FtBurnEvent" }
         -> "ftEvents"
    [] type \in { "NftTransferEvent", "NftMintEvent", "NftBurnEvent" }
         -> "nftEvents"
    [] OTHER -> "none"

\* The payloads of a contract call to the name-renewal function of the BNS
\* contract: with a zonefile hash among its arguments, and without one.
RenewalPayloads == { "NameRenewalWithZonefileHash", "NameRenewalNoZonefileHash" }

NoName == [source |-> "none"]

\* parseNameRenewalWithNoZonefileHashFromContractCall(tx, chainId): the name
\* record built from the arguments of a renewal call that carries no
\* zonefile hash, NoName for any other transaction. It is given the
\* transaction alone, not the events.
parseNameRenewalWithNoZonefileHashFromContractCall(tx) ==
  IF tx.payload = "NameRenewalNoZonefileHash"
  THEN [source |-> "contract_call", tx_id |-> tx.tx_id]
  ELSE NoName

\* parseNameFromContractEvent(event, parsedTx, ...): the name record of a
\* name-renewal log of the BNS contract, NoName for any other log.
parseNameFromContractEvent(event, parsedTx) ==
  IF event.topic = "name-renewal"
  THEN [source |-> "contract_log", tx_id |-> parsedTx.tx_id]
  ELSE NoName

\* dbTx.names after `if (name) dbTx.names.push(name)`.
PushName(names, name) == IF name # NoName THEN Append(names, name) ELSE names

\* A map that leaves out the renewal fallback of a contract call.
NewDbTxWithoutRenewal(tx) ==
  [ tx |-> [tx_id |-> tx.tx_id, tx_index |-> tx.tx_index, event_count |-> 0],
    contractLogEvents |-> << >>, ftEvents |-> << >>, nftEvents |-> << >>,
    stxEvents |-> << >>, stxLockEvents |-> << >>, names |-> << >> ]

\* parsedTxs.map(tx => dbTx): the entry of a transaction, its buckets empty;
\* for a contract call, names holds what the renewal fallback returns.
NewDbTx(tx) ==
  [ tx |-> [tx_id |-> tx.tx_id, tx_index |-> tx.tx_index, event_count |-> 0],
    contractLogEvents |-> << >>, ftEvents |-> << >>, nftEvents |-> << >>,
    stxEvents |-> << >>, stxLockEvents |-> << >>,
    names |-> PushName(<< >>,
                parseNameRenewalWithNoZonefileHashFromContractCall(tx)) ]

\* dbData.find(entry => entry.tx.tx_id === event.txid): the index of the
\* first entry of that transaction, 0 if there is none.
FindTx(dbData, txid) ==
  IF \E k \in DOMAIN dbData : dbData[k].tx.tx_id = txid
  THEN CHOOSE k \in DOMAIN dbData :
         /\ dbData[k].tx.tx_id = txid
         /\ \A j \in 1..(k - 1) : dbData[j].tx.tx_id # txid
  ELSE 0

\* A loop that does not skip uncommitted events.
IgnoredNever(event) == FALSE

\* if (!event.committed) continue;
Ignored(event) == ~event.committed

\* A loop that skips an event without owner instead of throwing.
OnMissingTxSkip(acc, event) == acc

\* if (!dbTx) throw new Error(`Unexpected missing tx ...`)
OnMissingTx(acc, event) == [acc EXCEPT !.error = "missing_tx"]

\* The event record pushed to a bucket. `src` is the event's position in the
\* message: it stands for the identity of the object, which the buckets and
\* sortedEvents share.
DbEventBase(event, dbTx, pos) ==
  [ event_index |-> event.event_index, tx_id |-> event.txid,
    tx_index |-> dbTx.tx.tx_index, src |-> pos ]

\* case CoreNodeEventType.ContractEvent, after the push to
\* contractLogEvents: the name the log reports, if any, is pushed to names.
PushBns(dbTx, event) ==
  IF event.type = "ContractEvent"
  THEN [dbTx EXCEPT !.names =
          PushName(@, parseNameFromContractEvent(event, dbTx.tx))]
  ELSE dbTx

\* One iteration of `for (const event of events)`.
PushEvent(acc, event, pos) ==
  IF Ignored(event) THEN acc
  ELSE LET k == FindTx(acc.dbData, event.txid)
       IN IF k = 0 THEN OnMissingTx(acc, event)
          ELSE LET b == BucketOf(event.type)
                   dbTx == acc.dbData[k]
               IN IF b = "none"
                  THEN [acc EXCEPT !.error = "unexpected_type"]
                  ELSE [acc EXCEPT !.dbData[k] =
                          PushBns([dbTx EXCEPT ![b] =
                                     Append(@, DbEventBase(event, dbTx, pos))],
                                  event)]

\* The loop over the events, left by the first throw.
RECURSIVE ScatterFrom(_, _, _)
ScatterFrom(acc, events, pos) ==
  IF pos > Len(events) \/ acc.error # "none" THEN acc
  ELSE ScatterFrom(PushEvent(acc, events[pos], pos), events, pos + 1)

\* [contractLogEvents, ftEvents, nftEvents, stxEvents, stxLockEvents].flat()
Flat(dbTx) ==
  dbTx.contractLogEvents \o dbTx.ftEvents \o dbTx.nftEvents
    \o dbTx.stxEvents \o dbTx.stxLockEvents

\* A merge of the buckets that is not sorted.
sortOmitted(events) == events

\* Array.prototype.sort with (a, b) => a.event_index - b.event_index: a
\* stable sort, by insertion after the elements that are not greater.
RECURSIVE InsertSorted(_, _)
InsertSorted(sorted, e) ==
  IF sorted = << >> THEN << e >>
  ELSE IF Head(sorted).event_index <= e.event_index
       THEN << Head(sorted) >> \o InsertSorted(Tail(sorted), e)
       ELSE << e >> \o sorted

RECURSIVE SortFrom(_, _, _)
SortFrom(sorted, events, n) ==
  IF n > Len(events) THEN sorted
  ELSE SortFrom(InsertSorted(sorted, events[n]), events, n + 1)

sort(events) == SortFrom(<< >>, events, 1)

\* A renumbering that starts at 1.
NormalizedIndexFromOne(k) == k

\* sortedEvents[i].event_index = i, for the element at place k = i + 1 of
\* the sequence.
NormalizedIndex(k) == k - 1

\* A bucket after the loop over sortedEvents has renumbered its objects.
Renumbered(bucket, sortedEvents) ==
  [ n \in DOMAIN bucket |->
      [bucket[n] EXCEPT !.event_index =
         NormalizedIndex(CHOOSE k \in DOMAIN sortedEvents :
                           sortedEvents[k].src = bucket[n].src)] ]

\* One iteration of `for (const tx of dbData)`.
Normalize(dbTx) ==
  LET sortedEvents == sort(Flat(dbTx))
  IN [dbTx EXCEPT !.tx.event_count = Len(sortedEvents),
                  !.contractLogEvents = Renumbered(@, sortedEvents),
                  !.ftEvents = Renumbered(@, sortedEvents),
                  !.nftEvents = Renumbered(@, sortedEvents),
                  !.stxEvents = Renumbered(@, sortedEvents),
                  !.stxLockEvents = Renumbered(@, sortedEvents)]

\* The result: the error thrown ("none" if it returned) and dbData.
parseDataStoreTxEventData(parsedTxs, events) ==
  LET acc == ScatterFrom(
               [ error |-> "none",
                 dbData |-> [k \in DOMAIN parsedTxs |-> NewDbTx(parsedTxs[k])] ],
               events, 1)
  IN IF acc.error # "none" THEN acc
     ELSE [acc EXCEPT !.dbData =
             [k \in DOMAIN acc.dbData |-> Normalize(acc.dbData[k])]]

\* A handler builds its update bundle and awaits its store method; a throw
\* of parseDataStoreTxEventData rejects the handler, and the route's catch
\* answers 500.
HandleWith(method) ==
  /\ blockPc = "received"
  /\ LET d == parseDataStoreTxEventData(blockMsg.txs, blockMsg.events)
     IN IF d.error # "none"
        THEN /\ blockError' = d.error
             /\ blockResp' = 500
             /\ blockPc' = "done"
             /\ UNCHANGED blockCall
        ELSE /\ blockCall' = [method |-> method, txs |-> d.dbData]
             /\ blockPc' = "storing"
             /\ UNCHANGED <<blockError, blockResp>>
  /\ UNCHANGED <<blockMsg, blockStore, queueVars, burnVars, mempoolVars,
                 modeVars, attachmentVars>>

handleBlockMessage == HandleWith("update")

handleMicroblockMessage == HandleWith("updateMicroblocks")

\* The store method returns: the bundle is committed and the route answers
\* 200, or the call throws and the route answers 500.
UpdateReturns ==
  /\ blockPc = "storing"
  /\ \E ok \in BOOLEAN :
       /\ blockStore' = IF ok THEN Append(blockStore, blockCall) ELSE blockStore
       /\ blockError' = IF ok THEN "none" ELSE "store"
       /\ blockResp' = IF ok THEN 200 ELSE 500
  /\ blockPc' = "done"
  /\ UNCHANGED <<blockMsg, blockCall, queueVars, burnVars, mempoolVars,
                 modeVars, attachmentVars>>

InitBlock ==
  /\ QueueInit /\ AttachmentIdle /\ BurnIdle /\ MempoolIdle /\ ModeIdle
  /\ \E m \in Messages : BlockInit(m)

NextBlock == handleBlockMessage \/ handleMicroblockMessage \/ UpdateReturns

SpecBlock == InitBlock /\ [][NextBlock]_vars

\* Messages of name renewals (SpecBns): each transaction is a token transfer
\* or a renewal call with or without a zonefile hash; each event is a
\* contract log, a name-renewal log of the BNS contract or another print,
\* committed or not, of either transaction.
BnsTxs ==
  { << [tx_id |-> "T1", tx_index |-> 0, payload |-> p] >> :
      p \in RenewalPayloads \cup { "TokenTransfer" } }
  \cup { << [tx_id |-> "T1", tx_index |-> 0, payload |-> p],
            [tx_id |-> "T2", tx_index |-> 1, payload |-> q] >> :
           p \in RenewalPayloads \cup { "TokenTransfer" },
           q \in RenewalPayloads }

BnsEvents ==
  { [txid |-> t, committed |-> c, type |-> "ContractEvent", event_index |-> 0,
     topic |-> o] :
      t \in TxIds, c \in BOOLEAN, o \in { "name-renewal", "print" } }

\* Number of events in a message of name renewals.
BnsEventCounts == 0..2

BnsMessages ==
  [ txs : BnsTxs,
    events : UNION { [1..n -> BnsEvents] : n \in BnsEventCounts } ]

InitBns ==
  /\ QueueInit /\ AttachmentIdle /\ BurnIdle /\ MempoolIdle /\ ModeIdle
  /\ \E m \in BnsMessages : BlockInit(m)

SpecBns == InitBns /\ [][NextBlock]_vars

----------------------------------------------------------------------------
\* handleNewAttachmentMessage (SpecAttachments).

\* Number of attachments in an /attachments/new message.
MaxAttachments == 3

\* The contract identifiers of the name system on the two networks.
BnsContractIdentifier ==
  [ mainnet |-> "SP000000000000000000002Q6VF78.bns",
    testnet |-> "ST000000000000000000002AMW42H.bns" ]

ContractIds ==
  { BnsContractIdentifier.mainnet, BnsContractIdentifier.testnet,
    "SP000000000000000000002Q6VF78.pox" }

\* hexToBuffer(hex).toString('utf8') on the buffers of the messages.
HexToUtf8(hex) ==
  CASE hex = "0x6e31" -> "n1"
    [] hex = "0x6e32" -> "n2"
    [] hex = "0x6964" -> "id"

\* decodeClarityValue(message.metadata): the tuple { op, name, namespace }
\* the metadata of a name-system attachment encodes.
decodeClarityValue(metadata) ==
  [ data |-> [ op |-> [data |-> metadata.op],
               name |-> [buffer |-> metadata.name],
               namespace |-> [buffer |-> metadata.namespace] ] ]

\* Number.parseInt(string, 10) on a string of decimal digits.
RECURSIVE parseInt(_)
parseInt(digits) ==
  IF digits = << >> THEN 0
  ELSE 10 * parseInt(SubSeq(digits, 1, Len(digits) - 1)) + digits[Len(digits)]

\* string.slice(2)
slice2(str) == SubSeq(str, 3, Len(str))

\* The attachments of a message, one per transaction: their content is a
\* hex string with its 0x prefix and their block height a decimal string.
AttachmentOf(c, t) ==
  [ contract_id |-> c, tx_id |-> t,
    metadata |-> [ op |-> "register",
                   name |-> IF t = "a1" THEN "0x6e31" ELSE "0x6e32",
                   namespace |-> "0x6964" ],
    content |-> IF t = "a1" THEN << "0", "x", "a", "b" >> ELSE << "0", "x" >>,
    content_hash |-> IF t = "a1" THEN "h1" ELSE "h2",
    index_block_hash |-> "b1",
    block_height |-> IF t = "a1" THEN << 1, 2 >> ELSE << 7 >> ]

AttachmentInputs ==
  { AttachmentOf(c, t) : c \in ContractIds, t \in { "a1", "a2" } }

AttachmentMessages ==
  UNION { [1..n -> AttachmentInputs] : n \in 0..MaxAttachments }

\* A filter that knows the mainnet identifier only.
IsBnsAttachmentMainnetOnly(message) ==
  message.contract_id = BnsContractIdentifier.mainnet

\* message.contract_id === BnsContractIdentifier.mainnet ||
\* message.contract_id === BnsContractIdentifier.testnet
IsBnsAttachment(message) ==
  \/ message.contract_id = BnsContractIdentifier.mainnet
  \/ message.contract_id = BnsContractIdentifier.testnet

\* The DataStoreAttachmentData of a name-system attachment.
DataStoreAttachmentData(message) ==
  LET metadataCV == decodeClarityValue(message.metadata)
  IN [ op |-> metadataCV.data.op.data,
       zonefile |-> slice2(message.content),
       name |-> HexToUtf8(metadataCV.data.name.buffer),
       namespace |-> HexToUtf8(metadataCV.data.namespace.buffer),
       zonefileHash |-> message.content_hash,
       txId |-> message.tx_id,
       indexBlockHash |-> message.index_block_hash,
       blockHeight |-> parseInt(message.block_height) ]

\* msg.map(...).filter(msg => !!msg): the map returns undefined for an
\* attachment of another contract, and the filter drops it.
RECURSIVE MapFilter(_)
MapFilter(msg) ==
  IF msg = << >> THEN << >>
  ELSE ( IF IsBnsAttachment(Head(msg))
         THEN << DataStoreAttachmentData(Head(msg)) >>
         ELSE << >> ) \o MapFilter(Tail(msg))

AttachmentOthersUnchanged ==
  UNCHANGED <<queueVars, blockVars, burnVars, mempoolVars, modeVars>>

\* The handler builds its batch and awaits db.updateAttachments(attachments).
handleNewAttachmentMessage ==
  /\ attPc = "received"
  /\ attCalls' = Append(attCalls, MapFilter(attMsg))
  /\ attPc' = "storing"
  /\ UNCHANGED <<attMsg, attStore, attResp>>
  /\ AttachmentOthersUnchanged

\* updateAttachments returns: the batch is committed and the route answers
\* 200, or the call throws and the route answers 500.
updateAttachmentsReturns ==
  /\ attPc = "storing"
  /\ \E ok \in BOOLEAN :
       /\ attStore' = IF ok THEN Append(attStore, attCalls[Len(attCalls)])
                      ELSE attStore
       /\ attResp' = IF ok THEN 200 ELSE 500
  /\ attPc' = "done"
  /\ UNCHANGED <<attMsg, attCalls>>
  /\ AttachmentOthersUnchanged

InitAttachments ==
  /\ QueueInit /\ BlockInit(NoMsg) /\ BurnIdle /\ MempoolIdle /\ ModeIdle
  /\ \E m \in AttachmentMessages : AttachmentInit(m)

NextAttachments == handleNewAttachmentMessage \/ updateAttachmentsReturns

SpecAttachments == InitAttachments /\ [][NextAttachments]_vars

----------------------------------------------------------------------------
\* handleBurnBlockMessage (SpecBurn).

\* Number of reward_recipients in a /new_burn_block message.
MaxRewardRecipients == 2

\* Number of reward_slot_holders in a /new_burn_block message.
MaxSlotHolders == 3

\* The JSON numbers of a message: an integer and a number that is none.
JsonNumbers == { [whole |-> 5, tenths |-> 0], [whole |-> 1, tenths |-> 5] }

Addresses == { "A", "B" }

BurnMessages ==
  [ burn_block_hash : { "H1", "H2" },
    burn_block_height : { 10, 11 },
    burn_amount : JsonNumbers,
    reward_recipients :
      UNION { [1..n -> [recipient : Addresses, amt : JsonNumbers]] :
                n \in 0..MaxRewardRecipients },
    reward_slot_holders :
      UNION { [1..m -> Addresses] : m \in 0..MaxSlotHolders } ]

\* BigInt(number) throws a RangeError unless the number is an integer.
IsInteger(x) == x.tenths = 0

BigInt(x) == x.whole

\* A map that numbers the rewards from 1.
rewardsIndexedFromOne(burnBlockMsg) ==
  [ i \in DOMAIN burnBlockMsg.reward_recipients |->
      [ canonical |-> TRUE,
        burn_block_hash |-> burnBlockMsg.burn_block_hash,
        burn_block_height |-> burnBlockMsg.burn_block_height,
        burn_amount |-> BigInt(burnBlockMsg.burn_amount),
        reward_recipient |-> burnBlockMsg.reward_recipients[i].recipient,
        reward_amount |-> BigInt(burnBlockMsg.reward_recipients[i].amt),
        reward_index |-> i ] ]

\* burnBlockMsg.reward_recipients.map((r, index) => dbReward): the element
\* at place i of the sequence has index i - 1.
rewards(burnBlockMsg) ==
  [ i \in DOMAIN burnBlockMsg.reward_recipients |->
      [ canonical |-> TRUE,
        burn_block_hash |-> burnBlockMsg.burn_block_hash,
        burn_block_height |-> burnBlockMsg.burn_block_height,
        burn_amount |-> BigInt(burnBlockMsg.burn_amount),
        reward_recipient |-> burnBlockMsg.reward_recipients[i].recipient,
        reward_amount |-> BigInt(burnBlockMsg.reward_recipients[i].amt),
        reward_index |-> i - 1 ] ]

\* burnBlockMsg.reward_slot_holders.map((r, index) => slotHolder)
slotHolders(burnBlockMsg) ==
  [ i \in DOMAIN burnBlockMsg.reward_slot_holders |->
      [ canonical |-> TRUE,
        burn_block_hash |-> burnBlockMsg.burn_block_hash,
        burn_block_height |-> burnBlockMsg.burn_block_height,
        address |-> burnBlockMsg.reward_slot_holders[i],
        slot_index |-> i - 1 ] ]

\* The map over reward_recipients converts burn_amount and amt for every
\* recipient: it throws at the first number that is not an integer.
RewardsThrow(burnBlockMsg) ==
  \E i \in DOMAIN burnBlockMsg.reward_recipients :
    \/ ~IsInteger(burnBlockMsg.burn_amount)
    \/ ~IsInteger(burnBlockMsg.reward_recipients[i].amt)

updateBurnchainRewardsCall(burnBlockMsg) ==
  [ method |-> "updateBurnchainRewards",
    burnchainBlockHash |-> burnBlockMsg.burn_block_hash,
    burnchainBlockHeight |-> burnBlockMsg.burn_block_height,
    records |-> rewards(burnBlockMsg) ]

updateBurnchainRewardSlotHoldersCall(burnBlockMsg) ==
  [ method |-> "updateBurnchainRewardSlotHolders",
    burnchainBlockHash |-> burnBlockMsg.burn_block_hash,
    burnchainBlockHeight |-> burnBlockMsg.burn_block_height,
    records |-> slotHolders(burnBlockMsg) ]

BurnOthersUnchanged ==
  UNCHANGED <<queueVars, blockVars, mempoolVars, modeVars, attachmentVars>>

\* The handler builds both lists and awaits db.updateBurnchainRewards; a
\* throw while building them rejects the handler, and the route answers 500.
handleBurnBlockMessage ==
  /\ burnPc = "received"
  /\ IF RewardsThrow(burnMsg)
     THEN /\ burnError' = "RangeError"
          /\ burnResp' = 500
          /\ burnPc' = "done"
          /\ UNCHANGED burnCalls
     ELSE /\ burnCalls' = << updateBurnchainRewardsCall(burnMsg) >>
          /\ burnPc' = "rewards"
          /\ UNCHANGED <<burnError, burnResp>>
  /\ UNCHANGED <<burnMsg, burnStore>>
  /\ BurnOthersUnchanged

\* db.updateBurnchainRewards returns: the handler awaits
\* db.updateBurnchainRewardSlotHolders, or throws.
updateBurnchainRewardsReturns ==
  /\ burnPc = "rewards"
  /\ \E ok \in BOOLEAN :
       IF ok
       THEN /\ burnStore' = Append(burnStore, burnCalls[1])
            /\ burnCalls' =
                 Append(burnCalls, updateBurnchainRewardSlotHoldersCall(burnMsg))
            /\ burnPc' = "slotHolders"
            /\ UNCHANGED <<burnError, burnResp>>
       ELSE /\ burnError' = "store"
            /\ burnResp' = 500
            /\ burnPc' = "done"
            /\ UNCHANGED <<burnStore, burnCalls>>
  /\ UNCHANGED burnMsg
  /\ BurnOthersUnchanged

\* db.updateBurnchainRewardSlotHolders returns: the handler returns and the
\* route answers 200, or it throws and the route answers 500.
updateBurnchainRewardSlotHoldersReturns ==
  /\ burnPc = "slotHolders"
  /\ \E ok \in BOOLEAN :
       /\ burnStore' = IF ok THEN Append(burnStore, burnCalls[2]) ELSE burnStore
       /\ burnError' = IF ok THEN "none" ELSE "store"
       /\ burnResp' = IF ok THEN 200 ELSE 500
  /\ burnPc' = "done"
  /\ UNCHANGED <<burnMsg, burnCalls>>
  /\ BurnOthersUnchanged

InitBurn ==
  /\ QueueInit /\ AttachmentIdle /\ BlockInit(NoMsg) /\ MempoolIdle /\ ModeIdle
  /\ \E m \in BurnMessages : BurnInit(m)

NextBurn ==
  \/ handleBurnBlockMessage
  \/ updateBurnchainRewardsReturns
  \/ updateBurnchainRewardSlotHoldersReturns

SpecBurn == InitBurn /\ [][NextBurn]_vars

----------------------------------------------------------------------------
\* handleMempoolTxsMessage and handleDroppedMempoolTxsMessage against the
\* store's mempool table (SpecDrop, SpecMempool).

\* Number of messages in one behaviour of SpecMempool.
MaxMempoolMessages == 3

\* The hex strings of a /new_mempool_tx body: three transactions and a
\* string that is no transaction.
RawTxs == { "raw1", "raw2", "raw3", "bad" }

MempoolTxIds == { "tx1", "tx2", "tx3" }

\* decodeTransaction(buffer) throws on bytes that are no transaction.
Decodable(rawTx) == rawTx # "bad"

\* decodeTransaction(buffer).tx_id: the id is a function of the bytes.
TxIdOf(rawTx) ==
  CASE rawTx = "raw1" -> "tx1"
    [] rawTx = "raw2" -> "tx2"
    [] rawTx = "raw3" -> "tx3"
    [] OTHER -> "none"

\* Math.round(Date.now() / 1000) at the time a message is handled.
ReceiptDates == { 100, 101 }

\* The bodies of /new_mempool_tx: one or two raw transactions.
MempoolPayloads == UNION { [1..n -> RawTxs] : n \in 1..2 }

\* The reasons of /drop_mempool_tx: the five the node emits, and two others.
DropReasons ==
  { "ReplaceByFee", "ReplaceAcrossFork", "TooExpensive", "StaleGarbageCollect",
    "Problematic", "SomethingElse", "" }

\* The bodies of /drop_mempool_tx.
DropMessages ==
  [ reason : DropReasons,
    dropped_txids : UNION { [1..n -> MempoolTxIds] : n \in 0..2 } ]

\* getTxDbStatus(reason): the named reasons map to the status of the same
\* name, every other reason to the generic status.
getTxDbStatus(reason) ==
  IF reason \in { "ReplaceByFee", "ReplaceAcrossFork", "TooExpensive",
                  "StaleGarbageCollect", "Problematic" }
  THEN reason
  ELSE "Dropped"

\* A handler that stores each transaction under an id taken from the time
\* of receipt.
MempoolTxArgsKeyedByReceipt(rawTx, receiptDate) ==
  [ txId |-> IF receiptDate = 100 THEN "tx1" ELSE "tx2",
    rawTx |-> rawTx, receiptDate |-> receiptDate ]

\* The argument of createDbMempoolTxFromCoreMsg for one raw transaction.
MempoolTxArgs(rawTx, receiptDate) ==
  [ txId |-> TxIdOf(rawTx), rawTx |-> rawTx, receiptDate |-> receiptDate ]

\* createDbMempoolTxFromCoreMsg: the mempool row of a transaction.
createDbMempoolTxFromCoreMsg(args) ==
  [ tx_id |-> args.txId, raw_tx |-> args.rawTx,
    receipt_date |-> args.receiptDate, status |-> "Pending",
    pruned |-> FALSE ]

\* decodedTxs.map(tx => createDbMempoolTxFromCoreMsg({...}))
dbMempoolTxs(rawTxs, receiptDate) ==
  [ i \in DOMAIN rawTxs |->
      createDbMempoolTxFromCoreMsg(MempoolTxArgs(rawTxs[i], receiptDate)) ]

updateMempoolTxsCall(rawTxs, receiptDate) ==
  [ method |-> "updateMempoolTxs",
    mempoolTxs |-> dbMempoolTxs(rawTxs, receiptDate) ]

\* A handler that passes the first dropped txid only.
dropMempoolTxsCallFirstOnly(msg) ==
  [ method |-> "dropMempoolTxs", status |-> getTxDbStatus(msg.reason),
    txIds |-> IF msg.dropped_txids = << >> THEN << >>
              ELSE << msg.dropped_txids[1] >> ]

\* db.dropMempoolTxs({ status: dbTxStatus, txIds: msg.dropped_txids })
dropMempoolTxsCall(msg) ==
  [ method |-> "dropMempoolTxs", status |-> getTxDbStatus(msg.reason),
    txIds |-> msg.dropped_txids ]

\* The store's updateMempoolTxs, idempotent on tx_id: a row whose tx_id the
\* table holds leaves the table as it is.
RECURSIVE InsertIfAbsent(_, _, _)
InsertIfAbsent(table, rows, i) ==
  IF i > Len(rows) THEN table
  ELSE IF \E n \in DOMAIN table : table[n].tx_id = rows[i].tx_id
       THEN InsertIfAbsent(table, rows, i + 1)
       ELSE InsertIfAbsent(Append(table, rows[i]), rows, i + 1)

\* The store's dropMempoolTxs: the rows of the txIds move to the status.
Dropped(table, status, txIds) ==
  [ n \in DOMAIN table |->
      IF \E i \in DOMAIN txIds : txIds[i] = table[n].tx_id
      THEN [table[n] EXCEPT !.status = status, !.pruned = TRUE]
      ELSE table[n] ]

\* The table after the store has committed a call.
Applied(table, call) ==
  IF call.method = "updateMempoolTxs"
  THEN InsertIfAbsent(table, call.mempoolTxs, 1)
  ELSE Dropped(table, call.status, call.txIds)

MempoolOthersUnchanged ==
  UNCHANGED <<queueVars, blockVars, burnVars, modeVars, attachmentVars>>

\* The tx ids of a /new_mempool_tx body.
TxIdsOf(rawTxs) ==
  { TxIdOf(rawTxs[i]) : i \in { j \in DOMAIN rawTxs : Decodable(rawTxs[j]) } }

\* The handler decodes every raw transaction, builds the rows and awaits
\* db.updateMempoolTxs; a throw of the decoder rejects the handler, and the
\* route answers 500. The queue hands it a message when the message before
\* has been dealt with.
handleMempoolTxsMessage(rawTxs, receiptDate) ==
  /\ mempoolMsg.pc = "done"
  /\ IF \E i \in DOMAIN rawTxs : ~Decodable(rawTxs[i])
     THEN /\ mempoolMsg' = [ kind |-> "new", body |-> rawTxs, pc |-> "done",
                             calls |-> 0, error |-> "decode", resp |-> 500 ]
          /\ mempoolCall' = NoMempoolCall
     ELSE /\ mempoolMsg' = [ kind |-> "new", body |-> rawTxs, pc |-> "storing",
                             calls |-> 1, error |-> "none", resp |-> 0 ]
          /\ mempoolCall' = updateMempoolTxsCall(rawTxs, receiptDate)
  /\ handled' = handled + 1
  /\ UNCHANGED <<payload, mempool, mempoolOnce, posts>>
  /\ MempoolOthersUnchanged

\* The handler maps the reason to a status and awaits db.dropMempoolTxs.
handleDroppedMempoolTxsMessage(msg) ==
  /\ mempoolMsg.pc = "done"
  /\ mempoolMsg' = [ kind |-> "drop", body |-> msg, pc |-> "storing",
                     calls |-> 1, error |-> "none", resp |-> 0 ]
  /\ mempoolCall' = dropMempoolTxsCall(msg)
  /\ handled' = handled + 1
  /\ UNCHANGED <<payload, mempool, mempoolOnce, posts>>
  /\ MempoolOthersUnchanged

\* The store call of the handler returns: the store has committed it and the
\* route answers 200, or the call throws and the route answers 500. The
\* store that takes `payload` once commits what the store commits, except
\* `payload` when it has committed it before.
MempoolStoreReturns ==
  /\ mempoolMsg.pc = "storing"
  /\ \E ok \in BOOLEAN :
       LET again == mempoolMsg.kind = "new" /\ mempoolMsg.body = payload
       IN /\ mempoolMsg' = [mempoolMsg EXCEPT
                              !.pc = "done",
                              !.error = IF ok THEN "none" ELSE "store",
                              !.resp = IF ok THEN 200 ELSE 500]
          /\ mempool' = IF ok THEN Applied(mempool, mempoolCall) ELSE mempool
          /\ mempoolOnce' = IF ok /\ ~(again /\ posts > 0)
                            THEN Applied(mempoolOnce, mempoolCall)
                            ELSE mempoolOnce
          /\ posts' = IF ok /\ again THEN posts + 1 ELSE posts
  /\ UNCHANGED <<payload, mempoolCall, handled>>
  /\ MempoolOthersUnchanged

\* SpecDrop: one /drop_mempool_tx message against a table of three pending
\* transactions.
PendingTable ==
  dbMempoolTxs(<< "raw1", "raw2", "raw3" >>, 100)

InitDrop ==
  /\ QueueInit /\ AttachmentIdle /\ BlockInit(NoMsg) /\ BurnIdle /\ ModeIdle
  /\ MempoolInit(<< >>, PendingTable)

DropArrives ==
  /\ handled = 0
  /\ \E msg \in DropMessages : handleDroppedMempoolTxsMessage(msg)

NextDrop == DropArrives \/ MempoolStoreReturns

SpecDrop == InitDrop /\ [][NextDrop]_vars

\* SpecMempool: `payload` is posted again and again, among messages that do
\* not touch its tx ids: /new_mempool_tx with one other transaction, and
\* /drop_mempool_tx of one other transaction.
InitMempool ==
  /\ QueueInit /\ AttachmentIdle /\ BlockInit(NoMsg) /\ BurnIdle /\ ModeIdle
  /\ \E p \in MempoolPayloads : MempoolInit(p, << >>)

PostPayload ==
  /\ handled < MaxMempoolMessages
  /\ \E d \in ReceiptDates : handleMempoolTxsMessage(payload, d)

PostOther ==
  /\ handled < MaxMempoolMessages
  /\ \E rawTx \in RawTxs : \E d \in ReceiptDates :
       /\ TxIdOf(rawTx) \notin TxIdsOf(payload)
       /\ handleMempoolTxsMessage(<< rawTx >>, d)

DropOther ==
  /\ handled < MaxMempoolMessages
  /\ \E t \in MempoolTxIds \ TxIdsOf(payload) :
       \E reason \in { "ReplaceByFee", "SomethingElse" } :
         handleDroppedMempoolTxsMessage(
           [reason |-> reason, dropped_txids |-> << t >>])

NextMempool == PostPayload \/ PostOther \/ DropOther \/ MempoolStoreReturns

SpecMempool == InitMempool /\ [][NextMempool]_vars

----------------------------------------------------------------------------
\* getApiMode (SpecMode).

\* The values of STACKS_API_MODE: not set, the four modes, and two strings
\* that are no mode.
ApiModeValues ==
  { "unset", "default", "readonly", "writeonly", "offline", "READONLY",
    "other" }

\* The values of the legacy flags.
FlagValues == { "unset", "true", "false" }

Environments ==
  [ STACKS_API_MODE : ApiModeValues,
    STACKS_READ_ONLY_MODE : FlagValues,
    STACKS_API_OFFLINE_MODE : FlagValues ]

\* parseArgBoolean(val): true for "true", false for "false" and for a
\* variable that is not set.
parseArgBoolean(val) == val = "true"

\* The value getApiMode returns in the environment e: the switch on
\* STACKS_API_MODE, whose default branch breaks, and then the legacy flags.
StacksApiMode(e) ==
  CASE e.STACKS_API_MODE = "readonly" -> "readonly"
    [] e.STACKS_API_MODE = "writeonly" -> "writeonly"
    [] e.STACKS_API_MODE = "offline" -> "offline"
    [] OTHER ->
         IF parseArgBoolean(e.STACKS_READ_ONLY_MODE) THEN "readonly"
         ELSE IF parseArgBoolean(e.STACKS_API_OFFLINE_MODE) THEN "offline"
         ELSE "default"

getApiMode ==
  /\ apiMode = "none"
  /\ apiMode' = StacksApiMode(env)
  /\ UNCHANGED <<env, initVars, queueVars, blockVars, burnVars, mempoolVars,
                 attachmentVars>>

InitMode ==
  /\ QueueInit /\ AttachmentIdle /\ BlockInit(NoMsg) /\ BurnIdle /\ MempoolIdle
  /\ \E e \in Environments : ModeInit(e)

NextMode == getApiMode

SpecMode == InitMode /\ [][NextMode]_vars

----------------------------------------------------------------------------
\* init and initApp (SpecInit).

\* Number of messages the node posts to the event server in one behaviour of
\* SpecInit.
MaxInitMessages == 2

\* The chain IDs of mainnet and testnet.
ChainIDs == { "0x00000001", "0x80000000" }

\* A check of the chain IDs that never fails.
ChainIdMismatchNever(network, configured) == FALSE

\* if (networkChainId !== configuredChainID)
ChainIdMismatch(network, configured) == network # configured

\* An init that starts the event server in every mode but offline.
RunsEventServerUnlessOffline(mode) == mode # "offline"

\* The else branch of `apiMode === StacksApiMode.offline` and, in it,
\* if (apiMode !== StacksApiMode.readOnly)
RunsEventServer(mode) == mode # "offline" /\ mode # "readonly"

\* if (apiMode !== StacksApiMode.writeOnly)
RunsApiServer(mode) == mode # "writeonly"

\* Where init stands after the block of the event server: at
\* `await startApiServer`, or past it.
ApiStage(mode) == IF RunsApiServer(mode) THEN "startApiServer" ELSE "finishing"

InitOthersUnchanged ==
  UNCHANGED <<env, gitInfoMissing, configuredChainID, queueVars, blockVars,
              burnVars, mempoolVars, attachmentVars>>

\* init() rejects: .catch(error => { logError(...); process.exit(1); })
Exit1 ==
  /\ initPc' = "failed"
  /\ exitCode' = 1

\* initApp calls init, which runs to its first await: the .git-info check,
\* getApiMode, and the choice of the store.
init ==
  /\ initPc = "start"
  /\ IF gitInfoMissing
     THEN /\ Exit1
          /\ UNCHANGED <<apiMode, db>>
     ELSE /\ apiMode' = StacksApiMode(env)
          /\ exitCode' = exitCode
          /\ IF apiMode' = "offline"
             THEN /\ db' = "OfflineDummyStore"
                  /\ initPc' = ApiStage(apiMode')
             ELSE /\ db' = db
                  /\ initPc' = "connect"
  /\ UNCHANGED <<networkChainId, eventServer, apiServer, ingested>>
  /\ InitOthersUnchanged

\* await PgDataStore.connect(...) returns or throws.
connectReturns ==
  /\ initPc = "connect"
  /\ \E ok \in BOOLEAN :
       IF ok
       THEN /\ db' = "PgDataStore"
            /\ initPc' = IF RunsEventServer(apiMode) THEN "startEventServer"
                         ELSE ApiStage(apiMode)
            /\ exitCode' = exitCode
       ELSE /\ Exit1
            /\ db' = db
  /\ UNCHANGED <<apiMode, networkChainId, eventServer, apiServer, ingested>>
  /\ InitOthersUnchanged

\* await startEventServer(...) returns (the server is listening) or throws;
\* init goes on to await getStacksNodeChainID().
startEventServerReturns ==
  /\ initPc = "startEventServer"
  /\ \E ok \in BOOLEAN :
       IF ok
       THEN /\ eventServer' = "listening"
            /\ initPc' = "getStacksNodeChainID"
            /\ exitCode' = exitCode
       ELSE /\ Exit1
            /\ eventServer' = eventServer
  /\ UNCHANGED <<apiMode, db, networkChainId, apiServer, ingested>>
  /\ InitOthersUnchanged

\* await getStacksNodeChainID() returns the node's chain ID or throws; init
\* compares it, throws on a mismatch, and goes on to the token metadata
\* processor (when enabled) or to the API server.
getStacksNodeChainIDReturns ==
  /\ initPc = "getStacksNodeChainID"
  /\ \/ /\ Exit1
        /\ networkChainId' = networkChainId
     \/ \E id \in ChainIDs :
          /\ networkChainId' = id
          /\ IF ChainIdMismatch(id, configuredChainID)
             THEN Exit1
             ELSE /\ exitCode' = exitCode
                  /\ \E metadata \in BOOLEAN :
                       initPc' = IF metadata THEN "drainDbQueue"
                                 ELSE ApiStage(apiMode)
  /\ UNCHANGED <<apiMode, db, eventServer, apiServer, ingested>>
  /\ InitOthersUnchanged

\* await tokenMetadataProcessor.drainDbQueue() returns or throws.
drainDbQueueReturns ==
  /\ initPc = "drainDbQueue"
  /\ \E ok \in BOOLEAN :
       IF ok
       THEN /\ initPc' = ApiStage(apiMode)
            /\ exitCode' = exitCode
       ELSE Exit1
  /\ UNCHANGED <<apiMode, db, networkChainId, eventServer, apiServer, ingested>>
  /\ InitOthersUnchanged

\* await startApiServer(...) returns (the server is listening) or throws.
startApiServerReturns ==
  /\ initPc = "startApiServer"
  /\ \E ok \in BOOLEAN :
       IF ok
       THEN /\ apiServer' = "listening"
            /\ initPc' = "finishing"
            /\ exitCode' = exitCode
       ELSE /\ Exit1
            /\ apiServer' = apiServer
  /\ UNCHANGED <<apiMode, db, networkChainId, eventServer, ingested>>
  /\ InitOthersUnchanged

\* The rest of init (profiler and metrics servers) returns or throws.
initReturns ==
  /\ initPc = "finishing"
  /\ \E ok \in BOOLEAN :
       IF ok
       THEN /\ initPc' = "initialized"
            /\ exitCode' = exitCode
       ELSE Exit1
  /\ UNCHANGED <<apiMode, db, networkChainId, eventServer, apiServer, ingested>>
  /\ InitOthersUnchanged

\* The node posts a message to the listening event server, which persists it
\* (the raw event record, and the update of the typed handler).
NodePosts ==
  /\ eventServer = "listening"
  /\ exitCode = -1
  /\ Len(ingested) < MaxInitMessages
  /\ ingested' = Append(ingested,
                        [checked |-> initPc # "getStacksNodeChainID"])
  /\ UNCHANGED <<apiMode, db, networkChainId, eventServer, apiServer, initPc,
                 exitCode>>
  /\ InitOthersUnchanged

InitApp ==
  /\ QueueInit /\ AttachmentIdle /\ BlockInit(NoMsg) /\ BurnIdle /\ MempoolIdle
  /\ \E e \in Environments : env = e
  /\ apiMode = "none"
  /\ \E missing \in BOOLEAN : \E id \in ChainIDs : AppInit(missing, id)

NextInit ==
  \/ init
  \/ connectReturns
  \/ startEventServerReturns
  \/ getStacksNodeChainIDReturns
  \/ drainDbQueueReturns
  \/ startApiServerReturns
  \/ initReturns
  \/ NodePosts

SpecInit == InitApp /\ [][NextInit]_vars

----------------------------------------------------------------------------
\* Claims about the queue and the endpoint (Spec, SpecHandlers).

Range(s) == { s[i] : i \in DOMAIN s }

\* The indexes of storeLog that belong to the task (r, k).
EntriesOf(r, k) ==
  { i \in DOMAIN storeLog : storeLog[i].req = r /\ storeLog[i].kind = k }

\* The store methods the typed handler of r has called so far, in order.
RECURSIVE CallsFrom(_, _)
CallsFrom(r, i) ==
  IF i > Len(storeLog) THEN << >>
  ELSE IF storeLog[i].req = r /\ storeLog[i].kind = "typed"
          /\ storeLog[i].ev = "begin"
       THEN << storeLog[i].method >> \o CallsFrom(r, i + 1)
       ELSE CallsFrom(r, i + 1)

TypedCalls(r) == CallsFrom(r, 1)

\* C1 (ordering, P2): requests are numbered in arrival order; whenever r1
\* arrived before r2, every begin and end of a store call of r1's typed
\* handler precedes every begin and end of a store call of r2's typed handler.
C1_TypedCommitsInArrivalOrder ==
  \A i, j \in DOMAIN storeLog :
    ( /\ storeLog[i].kind = "typed"
      /\ storeLog[j].kind = "typed"
      /\ storeLog[i].req < storeLog[j].req ) => i < j

\* Three requests to typed routes have all committed, the later ones having
\* arrived while the first was still being served.
C1_Witness ==
  /\ Len(req) = 3
  /\ \A r \in 1..3 : req[r].typed = "ok"
  /\ submitted[2] = Task(2, "raw")
  /\ submitted[3] = Task(3, "raw")

\* C2 (single writer): at most one queue task is executing; every store call
\* ends before the next one begins; and the store calls of one task are
\* contiguous in the order of store calls (once another task's call follows,
\* the task makes no further call), so that no other task's call falls
\* between updateBurnchainRewards and updateBurnchainRewardSlotHolders.
C2_SingleWriter ==
  /\ Cardinality(running) <= 1
  /\ \A i \in DOMAIN storeLog :
       storeLog[i].ev = "begin" =>
         \/ i = Len(storeLog)
         \/ /\ storeLog[i + 1].ev # "begin"
            /\ storeLog[i + 1].req = storeLog[i].req
            /\ storeLog[i + 1].method = storeLog[i].method
  /\ \A i \in 1..(Len(storeLog) - 1) :
       ( \/ storeLog[i + 1].req # storeLog[i].req
         \/ storeLog[i + 1].kind # storeLog[i].kind )
       => \A k \in (i + 1)..Len(storeLog) :
            \/ storeLog[k].req # storeLog[i].req
            \/ storeLog[k].kind # storeLog[i].kind

\* The burn-block handler is in its second store call while other tasks wait.
C2_Witness ==
  /\ queue # << >>
  /\ \E t \in running :
       /\ t.kind = "typed" /\ t.call = 2
       /\ req[t.req].path = "/new_burn_block"

\* C3: the typed handler of a request is added to the queue, and makes store
\* calls, only after the raw-event append of the same request has returned
\* successfully and its record is in the raw event log.
C3_RawEventBeforeTyped ==
  \A r \in DOMAIN req :
    ( \/ Task(r, "typed") \in Range(submitted)
      \/ req[r].typed # "none"
      \/ EntriesOf(r, "typed") # { } )
    => /\ req[r].raw = "ok"
       /\ \E n \in DOMAIN rawLog : rawLog[n].payload = r
       /\ \A i \in EntriesOf(r, "typed") :
            \E j \in EntriesOf(r, "raw") : j < i /\ storeLog[j].ev = "ok"
       /\ \A i, j \in DOMAIN submitted :
            ( submitted[i] = Task(r, "raw") /\ submitted[j] = Task(r, "typed") )
            => i < j

\* A typed handler is making a store call (its raw record is in the log), and
\* another request's raw-event append has failed.
C3_Witness ==
  /\ \E t \in running : t.kind = "typed"
  /\ \E r \in DOMAIN req : req[r].raw = "fail"

\* C4 (atomicity on failure, P3): after a typed handler invocation has
\* failed, the typed store is as it was when the handler started.
C4_FailureLeavesStoreUnchanged ==
  \A r \in DOMAIN req : req[r].typed = "fail" => req[r].post = req[r].pre

\* C5 as claimed: a successful typed handler invocation has made exactly one
\* store update call, and one that failed in validation has made none.
C5_ExactlyOneStoreCall ==
  \A r \in DOMAIN req :
    /\ req[r].typed = "ok" => Len(TypedCalls(r)) = 1
    /\ ( req[r].typed = "fail" /\ ~req[r].valid ) => Len(TypedCalls(r)) = 0

\* C5 as amended: a successful invocation of the block, microblock, mempool,
\* dropped-mempool or attachment handler has made exactly one store update
\* call; a successful invocation of the burn-block handler has made exactly
\* two, updateBurnchainRewards and then updateBurnchainRewardSlotHolders; an
\* invocation that failed in validation has made none.
C5_OneStoreCallButBurnBlockTwo ==
  \A r \in DOMAIN req :
    /\ ( req[r].typed = "ok" /\ req[r].path # "/new_burn_block" )
         => /\ Len(TypedCalls(r)) = 1
            /\ Cardinality({ n \in DOMAIN typedStore : typedStore[n].req = r }) = 1
    /\ ( req[r].typed = "ok" /\ req[r].path = "/new_burn_block" )
         => TypedCalls(r) =
              << "updateBurnchainRewards", "updateBurnchainRewardSlotHolders" >>
    /\ ( req[r].typed = "fail" /\ ~req[r].valid ) => TypedCalls(r) = << >>

\* A burn-block request and a request to another route have both been
\* answered 200.
C5_Witness ==
  /\ \E r \in DOMAIN req :
       req[r].path = "/new_burn_block" /\ req[r].resp = 200
  /\ \E r \in DOMAIN req :
       req[r].path \in Routes \ { "/new_burn_block" } /\ req[r].resp = 200

\* C10: a failed task does not block the queue. Tasks are started in the
\* order they were added and none is skipped (the tasks started, followed by
\* the tasks waiting, are the tasks added); tasks never wait while the queue's
\* slot is free; and a request fails only by its own doing: its typed handler
\* failed only if its own body was invalid or one of its own store calls
\* failed, its raw-event append only if its own store call failed.
C10_FailureDoesNotBlockQueue ==
  /\ submitted = started \o queue
  /\ queue # << >> => running # { }
  /\ \A r \in DOMAIN req :
       /\ req[r].typed = "fail" =>
            \/ ~req[r].valid
            \/ \E i \in EntriesOf(r, "typed") : storeLog[i].ev = "fail"
       /\ req[r].raw = "fail" =>
            \E i \in EntriesOf(r, "raw") : storeLog[i].ev = "fail"
       /\ ( Task(r, "typed") \in Range(started)
            /\ \A t \in running : t.req # r ) => req[r].typed \in { "ok", "fail" }

\* A task failed while two other tasks were waiting, and both of them, and a
\* task added after the failure, have since completed successfully.
C10_Witness ==
  /\ Len(req) = 3
  /\ req[1].raw = "fail"
  /\ req[2].resp = 200
  /\ req[3].resp = 200
  /\ \E i, j \in DOMAIN submitted :
       /\ submitted[j] = Task(3, "raw")
       /\ i > j
       /\ submitted[i] = Task(2, "typed")

\* None of the tasks of request r is waiting or running.
Finished(r) ==
  /\ \A i \in DOMAIN queue : queue[i].req # r
  /\ \A t \in running : t.req # r

\* C11: every POST request receives exactly one response: a request is
\* answered by the time the endpoint has finished with it, a status once sent
\* is never replaced, and the status is 200 exactly when the raw-event append
\* and the typed handler both succeeded, 500 exactly when the raw-event
\* append or the typed handler failed, and 404 exactly when the path has no
\* route and the raw-event append succeeded.
C11_ExactlyOneResponse ==
  [][ /\ \A r \in DOMAIN req :
           req[r].resp # 0 =>
             /\ req'[r].resp = req[r].resp
             /\ req'[r].raw = req[r].raw
             /\ req'[r].typed = req[r].typed
      /\ \A r \in DOMAIN req' :
           /\ req'[r].resp \in { 0, 200, 404, 500 }
           /\ Finished(r)' => req'[r].resp # 0
           /\ req'[r].resp = 200 <=>
                ( req'[r].raw = "ok" /\ req'[r].typed = "ok" )
           /\ req'[r].resp = 500 <=>
                ( req'[r].raw = "fail" \/ req'[r].typed = "fail" )
           /\ req'[r].resp = 404 <=>
                ( req'[r].path \notin Routes /\ req'[r].raw = "ok" )
    ]_vars

\* Two requests have been answered, one 404 on a path without route and one
\* 500 by a typed handler that failed in a store call.
C11_Witness ==
  /\ \E r \in DOMAIN req : req[r].resp = 404 /\ req[r].path = "/unknown"
  /\ \E r \in DOMAIN req :
       /\ req[r].resp = 500 /\ req[r].raw = "ok" /\ req[r].valid
       /\ req[r].path \in Routes

\* C12: a request whose raw-event append failed is answered 500, and its
\* typed handler is never added to the queue: it never starts, makes no
\* store call, and the typed store holds no update of the request.
C12_RawFailureAbortsRequest ==
  \A r \in DOMAIN req :
    req[r].raw = "fail" =>
      /\ req[r].resp = 500
      /\ req[r].typed = "none"
      /\ Task(r, "typed") \notin Range(submitted)
      /\ EntriesOf(r, "typed") = { }
      /\ \A n \in DOMAIN typedStore : typedStore[n].req # r
      /\ \A n \in DOMAIN rawLog : rawLog[n].payload # r

\* The raw-event append of a request to a typed route has failed while an
\* earlier request's typed handler was still waiting, and that handler and a
\* later request have since been served.
C12_Witness ==
  /\ Len(req) = 3
  /\ req[2].raw = "fail" /\ req[2].path = "/new_block" /\ req[2].valid
  /\ req[1].resp = 200
  /\ req[3].resp = 200
  /\ \E i, j \in DOMAIN storeLog :
       /\ i < j
       /\ storeLog[i].req = 2 /\ storeLog[i].ev = "fail"
       /\ storeLog[j].req = 1 /\ storeLog[j].kind = "typed"

\* The store methods of the updates of request r in a sequence of committed
\* updates, in commit order.
RECURSIVE UpdatesFrom(_, _, _)
UpdatesFrom(store, r, n) ==
  IF n > Len(store) THEN << >>
  ELSE IF store[n].req = r
       THEN << store[n].method >> \o UpdatesFrom(store, r, n + 1)
       ELSE UpdatesFrom(store, r, n + 1)

\* C13 (back-pressure): a request to a typed route has a response only when
\* none of its queue tasks is waiting or running and its typed handler, if
\* it was added, has settled; and when the response is 200, the store had
\* committed every store call of the handler, in the handler's order, by the
\* time the response was sent.
C13_ResponseAfterCompletion ==
  \A r \in DOMAIN req :
    ( req[r].path \in Routes /\ req[r].resp # 0 ) =>
      /\ Finished(r)
      /\ req[r].raw = "fail" \/ req[r].typed \in { "ok", "fail" }
      /\ \A i \in EntriesOf(r, "typed") :
           storeLog[i].ev = "begin" => i < Len(storeLog)
      /\ req[r].resp = 200 =>
           /\ UpdatesFrom(req[r].post, r, 1) = StoreMethods(req[r].path)
           /\ UpdatesFrom(typedStore, r, 1) = StoreMethods(req[r].path)

\* A burn-block request has been answered 200 while a later request, which
\* arrived before the answer, is still unanswered.
C13_Witness ==
  /\ Len(req) = 2
  /\ req[1].path = "/new_burn_block" /\ req[1].resp = 200
  /\ req[2].path \in Routes /\ req[2].resp = 0
  /\ \E t \in running : t.req = 2 /\ t.kind = "typed"

\* The place of the raw-event task of request r in the order of submission
\* sub.
SubmittedAt(sub, r) == CHOOSE i \in DOMAIN sub : sub[i] = Task(r, "raw")

\* C14: the raw event log is append-only and ordered: every step keeps the
\* records of the log as they are and at most appends to them; each record
\* is the path and payload of one request, no request has two records, and
\* the records are in the order in which their appends were submitted to the
\* queue.
C14_RawLogAppendOnly ==
  [][ /\ Len(rawLog') >= Len(rawLog)
      /\ SubSeq(rawLog', 1, Len(rawLog)) = rawLog
      /\ \A n \in DOMAIN rawLog' :
           /\ rawLog'[n].payload \in DOMAIN req'
           /\ rawLog'[n].path = req'[rawLog'[n].payload].path
           /\ Task(rawLog'[n].payload, "raw") \in Range(submitted')
      /\ \A m, n \in DOMAIN rawLog' :
           m < n => SubmittedAt(submitted', rawLog'[m].payload) <
                      SubmittedAt(submitted', rawLog'[n].payload)
    ]_vars

\* Three appends were submitted before the first returned; the second
\* failed, and the log holds the first and the third, a typed task having
\* been submitted between them.
C14_Witness ==
  /\ Len(req) = 3
  /\ \A r \in 1..3 : submitted[r] = Task(r, "raw")
  /\ req[2].raw = "fail"
  /\ Len(rawLog) = 2
  /\ rawLog[1].payload = 1 /\ rawLog[2].payload = 3

\* An endpoint with nothing received and a fresh store.
FreshState ==
  [ req |-> << >>, queue |-> << >>, running |-> { }, rawLog |-> << >>,
    typedStore |-> << >>, submitted |-> << >>, started |-> << >>,
    storeLog |-> << >> ]

\* The endpoint after every store call in flight, and every call that
\* follows from it, has returned successfully.
RECURSIVE Drained(_)
Drained(st) ==
  IF st.running = { } THEN st
  ELSE Drained(StoreReturned(st, CHOOSE t \in st.running : TRUE, TRUE))

\* Replay: the records of the raw event log, from the n-th on, are posted one
\* after the other, each with its path and its body, to the endpoint st,
\* whose store commits every call.
RECURSIVE ReplayFrom(_, _)
ReplayFrom(st, n) ==
  IF n > Len(rawLog) THEN st
  ELSE LET b == [ path |-> rawLog[n].path,
                  valid |-> req[rawLog[n].payload].valid ]
           s1 == add([st EXCEPT !.req = Append(@, NewRequest(b))],
                     Task(Len(st.req) + 1, "raw"))
       IN ReplayFrom(Drained(s1), n + 1)

\* What a typed store holds: the updates committed to it, each the method
\* and the body it was called for (a body is its path and whether it is
\* valid), whatever their order and however often they were committed.
Holds(store, requests) ==
  { [ method |-> store[n].method, path |-> requests[store[n].req].path,
      valid |-> requests[store[n].req].valid ] : n \in DOMAIN store }

\* C15 (raw-event round-trip, P5) as claimed: whenever the endpoint is at
\* rest, posting the records of the raw event log in their order to the same
\* endpoint with a fresh store leaves a typed store that holds what the
\* original typed store holds.
C15_ReplayEqualsOriginal ==
  ( running = { } /\ queue = << >> ) =>
    LET replayed == ReplayFrom(FreshState, 1)
    IN Holds(replayed.typedStore, replayed.req) = Holds(typedStore, req)

\* C26 (raw append off the write path) as claimed: a typed handler that is
\* waiting in the queue is never waiting while the raw-event append of
\* another request holds the queue's slot.
C26_RawAppendOffTheSlot ==
  \A t \in running :
    t.kind = "raw" =>
      \A n \in DOMAIN queue :
        ~( queue[n].kind = "typed" /\ queue[n].req # t.req )

\* The places in the raw event log of the records of request r.
RawRecordsOf(log, requests, r) ==
  { n \in DOMAIN log :
      log[n].payload = r /\ log[n].path = requests[r].path }

\* C27 (raw recorder), amended: every POST request to any path whose
\* raw-event append succeeds has exactly one raw record (its path, its
\* payload), appended before any later step of the request, and the record
\* stays in the log whatever the request's outcome (200, 500 from the typed
\* handler, 404); a request whose raw-event append fails has none and is
\* answered 500. The log never loses or changes a record. A GET / request
\* appends no raw record and makes no store call.
C27_OneRawRecordPerPost ==
  [][ /\ \A r \in DOMAIN req' :
           /\ Cardinality({ n \in DOMAIN rawLog' : rawLog'[n].payload = r })
                = IF req'[r].raw = "ok" THEN 1 ELSE 0
           /\ Cardinality(RawRecordsOf(rawLog', req', r))
                = IF req'[r].raw = "ok" THEN 1 ELSE 0
           /\ req'[r].resp \in { 200, 404 } => req'[r].raw = "ok"
           /\ req'[r].raw = "fail" => req'[r].resp = 500
      /\ Len(rawLog') >= Len(rawLog)
      /\ SubSeq(rawLog', 1, Len(rawLog)) = rawLog
      /\ getResp' # getResp =>
           /\ getResp' = 200
           /\ UNCHANGED <<req, queue, running, rawLog, typedStore, submitted,
                          started, storeLog>>
    ]_vars

\* A GET / has been answered, and two POST requests with a raw record each
\* have been answered 500 by the typed handler and 404.
C27_Witness ==
  /\ getResp = 200
  /\ Len(rawLog) = 2
  /\ \E b, c \in DOMAIN req :
       /\ req[b].resp = 500 /\ req[b].typed = "fail"
       /\ req[c].resp = 404
       /\ \A r \in { b, c } :
            Cardinality(RawRecordsOf(rawLog, req, r)) = 1

\* C27 as claimed: every POST request whose raw-event task has settled has
\* exactly one raw record.
C27_EveryPostRecorded ==
  \A r \in DOMAIN req :
    req[r].raw # "pending" =>
      Cardinality(RawRecordsOf(rawLog, req, r)) = 1

\* The tasks of request r that are waiting or running.
TasksOf(r) ==
  { n \in DOMAIN queue : queue[n].req = r } \cup { t \in running : t.req = r }

\* The requests that have not been answered.
Unanswered == { r \in DOMAIN req : req[r].resp = 0 }

\* C28 (no unbounded buffering): every request has at most one task waiting
\* or running in the queue, an answered request has none, and so the tasks
\* waiting and running are never more than the unanswered requests.
C28_OneTaskPerRequest ==
  /\ \A r \in DOMAIN req :
       /\ Cardinality(TasksOf(r)) <= 1
       /\ req[r].resp # 0 => TasksOf(r) = { }
  /\ Len(queue) + Cardinality(running) <= Cardinality(Unanswered)

\* Two unanswered requests, one with its typed store call in flight and the
\* other with its typed task waiting.
C28_Witness ==
  /\ Cardinality(Unanswered) = 2
  /\ Len(queue) = 1
  /\ \E t \in running : t.kind = "typed"
  /\ \E n \in DOMAIN queue : queue[n].kind = "typed"

\* C32 (responses): with a store whose every call returns, successfully or
\* with an error, every POST request the event server has accepted is
\* eventually answered, whatever other requests are in flight and whatever
\* fails in their tasks.
C32_EveryRequestAnswered ==
  \A r \in 1..MaxLiveRequests :
    ( r \in DOMAIN req ) ~> ( r \in DOMAIN req /\ req[r].resp # 0 )

\* A request has been answered 200 although it arrived while the raw-event
\* append of an earlier request was in flight and that request's typed
\* handler then failed.
C32_Witness ==
  /\ Len(req) = 2
  /\ req[1].resp = 500 /\ req[1].typed = "fail"
  /\ req[2].resp = 200
  /\ submitted[2] = Task(2, "raw")

----------------------------------------------------------------------------
\* Claims about parseDataStoreTxEventData (SpecBlock).

BucketNames ==
  { "contractLogEvents", "ftEvents", "nftEvents", "stxEvents", "stxLockEvents" }

\* The event records of an entry of a bundle, over all its buckets.
EventsOf(dbTx) == UNION { Range(dbTx[b]) : b \in BucketNames }

\* The positions in the message of the committed events of a transaction.
Owned(txid) ==
  { n \in DOMAIN blockMsg.events :
      blockMsg.events[n].committed /\ blockMsg.events[n].txid = txid }

\* The original, block-relative index of an event record of a bundle.
Original(e) == blockMsg.events[e.src].event_index

\* The message has a committed event whose txid is no parsed transaction's.
MissingOwner ==
  \E n \in DOMAIN blockMsg.events :
    /\ blockMsg.events[n].committed
    /\ \A k \in DOMAIN blockMsg.txs :
         blockMsg.txs[k].tx_id # blockMsg.events[n].txid

\* C6 (P1, contiguity): in every bundle passed to the store, for every
\* transaction t with N committed input events, t's buckets hold N events,
\* their event_index values are exactly 0..N-1, and t.event_count = N.
C6_EventIndexesContiguous ==
  blockCall # NoCall =>
    \A k \in DOMAIN blockCall.txs :
      LET t == blockCall.txs[k]
          N == Cardinality(Owned(t.tx.tx_id))
      IN /\ Len(t.contractLogEvents) + Len(t.ftEvents) + Len(t.nftEvents)
              + Len(t.stxEvents) + Len(t.stxLockEvents) = N
         /\ { e.event_index : e \in EventsOf(t) } = 0..(N - 1)
         /\ t.tx.event_count = N

\* A committed bundle with a transaction that has no event and a transaction
\* whose events are in two buckets and did not start at index 0.
C6_Witness ==
  /\ blockStore # << >>
  /\ \E j, k \in DOMAIN blockCall.txs :
       /\ blockCall.txs[j].tx.event_count = 0
       /\ blockCall.txs[k].contractLogEvents # << >>
       /\ blockCall.txs[k].stxEvents # << >>
       /\ \A e \in EventsOf(blockCall.txs[k]) : Original(e) > 0

\* C7 (P1, order): in every bundle passed to the store, two events of one
\* transaction whose original indexes are i1 < i2 have normalized indexes in
\* the same order, whatever their buckets and their places in the message.
C7_NormalizationKeepsOrder ==
  blockCall # NoCall =>
    \A k \in DOMAIN blockCall.txs :
      \A a, b \in EventsOf(blockCall.txs[k]) :
        Original(a) < Original(b) => a.event_index < b.event_index

\* A committed bundle in which an stx event precedes a contract log of the
\* same transaction by original index but follows it in the message.
C7_Witness ==
  /\ blockStore # << >>
  /\ \E k \in DOMAIN blockCall.txs :
       \E a \in Range(blockCall.txs[k].stxEvents) :
         \E b \in Range(blockCall.txs[k].contractLogEvents) :
           Original(a) < Original(b) /\ a.src > b.src

\* C8 (P7, uncommitted filter): every event of a bundle passed to the store,
\* and of a bundle the store committed, is a committed event of the message;
\* event_count counts the committed events only, and an event's normalized
\* index is its rank among the committed events of its transaction.
C8_UncommittedFiltered ==
  /\ blockCall # NoCall =>
       \A k \in DOMAIN blockCall.txs :
         LET t == blockCall.txs[k]
             own == Owned(t.tx.tx_id)
         IN /\ t.tx.event_count = Cardinality(own)
            /\ \A e \in EventsOf(t) :
                 /\ blockMsg.events[e.src].committed
                 /\ e.event_index >= Cardinality(
                      { n \in own :
                          blockMsg.events[n].event_index < Original(e) })
                 /\ e.event_index < Cardinality(
                      { n \in own :
                          blockMsg.events[n].event_index <= Original(e) })
  /\ \A c \in Range(blockStore) :
       \A k \in DOMAIN c.txs :
         \A e \in EventsOf(c.txs[k]) : blockMsg.events[e.src].committed

\* A committed bundle of a message in which an uncommitted event of a
\* transaction precedes a committed event of the same transaction.
C8_Witness ==
  /\ blockStore # << >>
  /\ \E m, n \in DOMAIN blockMsg.events :
       /\ m < n
       /\ ~blockMsg.events[m].committed
       /\ blockMsg.events[n].committed
       /\ blockMsg.events[m].txid = blockMsg.events[n].txid

\* C9 (missing owner): a message with a committed event of no parsed
\* transaction makes the handler throw before any store call, and the
\* request is answered 500; in a bundle passed to the store every event
\* carries the tx_id of the entry that holds it; and the missing-owner error
\* is raised by committed events only.
C9_MissingOwnerIsFatal ==
  /\ ( blockPc # "received" /\ MissingOwner ) =>
       /\ blockCall = NoCall
       /\ blockStore = << >>
       /\ blockResp = 500
       /\ blockError \in { "missing_tx", "unexpected_type" }
  /\ blockCall # NoCall =>
       \A k \in DOMAIN blockCall.txs :
         \A e \in EventsOf(blockCall.txs[k]) :
           /\ e.tx_id = blockCall.txs[k].tx.tx_id
           /\ blockMsg.events[e.src].txid = e.tx_id
  /\ blockError = "missing_tx" => MissingOwner
  /\ ( blockPc # "received" /\ ~MissingOwner
       /\ \A n \in DOMAIN blockMsg.events :
            blockMsg.events[n].committed
              => BucketOf(blockMsg.events[n].type) # "none" )
       => blockCall # NoCall

\* The handler has thrown the missing-owner error and the request has been
\* answered 500, the message also holding an uncommitted event without owner
\* before the committed one.
C9_Witness ==
  /\ blockError = "missing_tx"
  /\ blockResp = 500
  /\ \E m, n \in DOMAIN blockMsg.events :
       /\ m < n
       /\ ~blockMsg.events[m].committed
       /\ blockMsg.events[n].committed
       /\ \A k \in DOMAIN blockMsg.txs :
            /\ blockMsg.txs[k].tx_id # blockMsg.events[m].txid
            /\ blockMsg.txs[k].tx_id # blockMsg.events[n].txid

\* The recognized event types.
RecognizedTypes ==
  { "ContractEvent", "StxTransferEvent", "StxMintEvent", "StxBurnEvent",
    "StxLockEvent", "FtTransferEvent", "FtMintEvent", "FtBurnEvent",
    "NftTransferEvent", "NftMintEvent", "NftBurnEvent" }

\* The positions in the message of the events of no recognized type.
UnknownType ==
  { n \in DOMAIN blockMsg.events :
      blockMsg.events[n].type \notin RecognizedTypes }

\* C19 as claimed: a message with any event of an unrecognized type,
\* committed or not, makes the handler fail, with no store update and a 500
\* response.
C19_AnyUnknownTypeIsFatal ==
  ( blockPc # "received" /\ UnknownType # { } ) =>
    /\ blockCall = NoCall
    /\ blockStore = << >>
    /\ blockResp = 500

\* C19 as amended: a message with a committed event of an unrecognized type
\* makes the handler throw before any store call, and the request is answered
\* 500; the unexpected-type error is raised by committed events only; and an
\* uncommitted event is skipped whatever its type, so that a message whose
\* committed events all have an owner and a recognized type reaches the
\* store call.
C19_CommittedUnknownTypeIsFatal ==
  /\ ( blockPc # "received"
       /\ \E n \in UnknownType : blockMsg.events[n].committed ) =>
       /\ blockCall = NoCall
       /\ blockStore = << >>
       /\ blockResp = 500
       /\ blockError \in { "unexpected_type", "missing_tx" }
  /\ blockError = "unexpected_type" =>
       \E n \in UnknownType :
         /\ blockMsg.events[n].committed
         /\ FindTx([k \in DOMAIN blockMsg.txs |-> NewDbTx(blockMsg.txs[k])],
                   blockMsg.events[n].txid) # 0
  /\ ( blockPc # "received" /\ ~MissingOwner
       /\ \A n \in UnknownType : ~blockMsg.events[n].committed )
       => /\ blockCall # NoCall
          /\ blockError \in { "none", "store" }

\* The handler has thrown the unexpected-type error and the request has been
\* answered 500, the message holding an uncommitted event of an unrecognized
\* type before the committed one.
C19_Witness ==
  /\ blockError = "unexpected_type"
  /\ blockResp = 500
  /\ blockStore = << >>
  /\ \E m, n \in UnknownType :
       /\ m < n
       /\ ~blockMsg.events[m].committed
       /\ blockMsg.events[n].committed

----------------------------------------------------------------------------
\* Claims about handleBurnBlockMessage (SpecBurn).

\* C18: for a message with n reward_recipients and m reward_slot_holders, the
\* rewards call carries exactly n records, the i-th (from 0) with
\* reward_index = i and the recipient and amount of the i-th recipient, and
\* the slot-holders call exactly m records, the i-th with slot_index = i and
\* the i-th address, each record and each call carrying the message's
\* burn_block_hash and burn_block_height; the rewards call comes first, and
\* a 200 response means the store committed both.
C18_BurnBlockRecordsIndexed ==
  LET n == Len(burnMsg.reward_recipients)
      m == Len(burnMsg.reward_slot_holders)
  IN /\ \A c \in Range(burnCalls) :
          /\ c.burnchainBlockHash = burnMsg.burn_block_hash
          /\ c.burnchainBlockHeight = burnMsg.burn_block_height
          /\ \A i \in DOMAIN c.records :
               /\ c.records[i].burn_block_hash = burnMsg.burn_block_hash
               /\ c.records[i].burn_block_height = burnMsg.burn_block_height
     /\ burnCalls # << >> =>
          LET c == burnCalls[1]
          IN /\ c.method = "updateBurnchainRewards"
             /\ DOMAIN c.records = 1..n
             /\ \A i \in 1..n :
                  /\ c.records[i].reward_index = i - 1
                  /\ c.records[i].reward_recipient =
                       burnMsg.reward_recipients[i].recipient
                  /\ c.records[i].reward_amount =
                       burnMsg.reward_recipients[i].amt.whole
     /\ Len(burnCalls) > 1 =>
          LET c == burnCalls[2]
          IN /\ Len(burnCalls) = 2
             /\ c.method = "updateBurnchainRewardSlotHolders"
             /\ DOMAIN c.records = 1..m
             /\ \A i \in 1..m :
                  /\ c.records[i].slot_index = i - 1
                  /\ c.records[i].address = burnMsg.reward_slot_holders[i]
     /\ burnResp = 200 => ( Len(burnCalls) = 2 /\ burnStore = burnCalls )
     /\ ( burnPc # "received" /\ ~RewardsThrow(burnMsg) ) => burnCalls # << >>

\* A message with two different reward recipients and three slot holders,
\* not all the same, has been stored and answered 200.
C18_Witness ==
  /\ burnResp = 200
  /\ Len(burnMsg.reward_recipients) = 2
  /\ burnMsg.reward_recipients[1].recipient # burnMsg.reward_recipients[2].recipient
  /\ Len(burnMsg.reward_slot_holders) = 3
  /\ burnMsg.reward_slot_holders[1] # burnMsg.reward_slot_holders[3]
  /\ Len(burnStore) = 2

----------------------------------------------------------------------------
\* Claims about the mempool handlers (SpecMempool, SpecDrop).

C17_DropMapsReasonAndCallsOnce ==
  mempoolMsg.kind = "drop" =>
    LET msg == mempoolMsg.body
        named == { "ReplaceByFee", "ReplaceAcrossFork", "TooExpensive",
                   "StaleGarbageCollect", "Problematic" }
    IN /\ mempoolMsg.calls = 1
       /\ mempoolCall.method = "dropMempoolTxs"
       /\ msg.reason \in named => mempoolCall.status = msg.reason
       /\ msg.reason \notin named => mempoolCall.status = "Dropped"
       /\ mempoolCall.txIds = msg.dropped_txids
       /\ mempoolMsg.error \in { "none", "store" }
       /\ ( mempoolMsg.pc = "done" /\ mempoolMsg.error = "none" ) =>
            /\ mempoolMsg.resp = 200
            /\ \A n \in DOMAIN mempool :
                 IF mempool[n].tx_id \in Range(msg.dropped_txids)
                 THEN mempool[n].status = mempoolCall.status
                 ELSE mempool[n].status = "Pending"

\* A message with a reason that is none of the five and two different
\* txids has been handled and answered 200.
C17_Witness ==
  /\ mempoolMsg.kind = "drop"
  /\ mempoolMsg.resp = 200
  /\ mempoolMsg.body.reason = "SomethingElse"
  /\ Len(mempoolMsg.body.dropped_txids) = 2
  /\ mempoolMsg.body.dropped_txids[1] # mempoolMsg.body.dropped_txids[2]
  /\ Cardinality({ n \in DOMAIN mempool : mempool[n].status = "Dropped" }) = 2

----------------------------------------------------------------------------
\* Claims about getApiMode (SpecMode).

\* C20 as claimed: whenever STACKS_API_MODE is one of default, readonly,
\* writeonly, offline, getApiMode returns that mode, whatever the values of
\* STACKS_READ_ONLY_MODE and STACKS_API_OFFLINE_MODE.
C20_ApiModeOverridesLegacyFlags ==
  ( /\ apiMode # "none"
    /\ env.STACKS_API_MODE \in { "default", "readonly", "writeonly", "offline" } )
  => apiMode = env.STACKS_API_MODE

----------------------------------------------------------------------------
\* Claims about init (SpecInit).

\* C21 (chain-ID check): once the node has reported a chain ID that differs
\* from the configured one, init has failed, the process has exited with
\* code 1, and the API server has not been started; the check is made in
\* the modes that run the event server, after it has been started.
C21_ChainIdMismatchExits ==
  /\ ( networkChainId # "none" /\ networkChainId # configuredChainID ) =>
       /\ initPc = "failed"
       /\ exitCode = 1
       /\ apiServer = "none"
  /\ networkChainId # "none" =>
       /\ apiMode \in { "default", "writeonly" }
       /\ eventServer = "listening"
  /\ apiServer # "none" =>
       ( apiMode \in { "default", "writeonly" } =>
           networkChainId = configuredChainID )

\* The node has reported a chain ID that is not the configured one, in
\* default mode, and the process has exited with code 1.
C21_Witness ==
  /\ apiMode = "default"
  /\ networkChainId \in ChainIDs
  /\ networkChainId # configuredChainID
  /\ exitCode = 1

\* C22: the event server is started only in the modes default and
\* writeonly, and in these modes an init that has got past the connection
\* to the store has started it; in the modes readonly and offline
\* startEventServer is never called.
C22_EventServerIffDefaultOrWriteonly ==
  /\ ( initPc = "startEventServer" \/ eventServer # "none" ) =>
       apiMode \in { "default", "writeonly" }
  /\ ( /\ apiMode \in { "default", "writeonly" }
       /\ initPc \in { "getStacksNodeChainID", "drainDbQueue", "startApiServer",
                       "finishing", "initialized" } ) =>
       eventServer = "listening"
  /\ apiMode \in { "readonly", "offline" } =>
       /\ eventServer = "none"
       /\ networkChainId = "none"
       /\ ingested = << >>

\* Init has completed in writeonly mode: the event server is listening and
\* has persisted a message, and there is no API server.
C22_Witness ==
  /\ initPc = "initialized"
  /\ apiMode = "writeonly"
  /\ eventServer = "listening"
  /\ apiServer = "none"
  /\ ingested # << >>

\* C23 as claimed: the API server is started only in the modes default and
\* readonly; in the modes writeonly and offline startApiServer is never
\* called.
C23_ApiServerIffDefaultOrReadonly ==
  ( initPc = "startApiServer" \/ apiServer # "none" ) =>
    apiMode \in { "default", "readonly" }

\* C30 as claimed: every message the event server has persisted was
\* persisted after the chain ID check had passed, and when the chain IDs
\* differ the event server has persisted nothing.
C30_NothingPersistedBeforeChainIdCheck ==
  /\ \A i \in DOMAIN ingested : ingested[i].checked
  /\ ( networkChainId # "none" /\ networkChainId # configuredChainID ) =>
       ingested = << >>

----------------------------------------------------------------------------
\* C25 (tie-break) as claimed: in every bundle passed to the store, two events
\* of one transaction that carry the same original event_index have
\* normalized indexes in the order of their places in the message, whatever
\* their buckets.
C25_TiesFollowMessageOrder ==
  blockCall # NoCall =>
    \A k \in DOMAIN blockCall.txs :
      \A a, b \in EventsOf(blockCall.txs[k]) :
        ( Original(a) = Original(b) /\ a.src < b.src )
          => a.event_index < b.event_index

\* C31 (order within a bucket), amended: in every bundle passed to the store,
\* each bucket of a transaction lists its events in the order of the message,
\* and of two events of a bucket the earlier one has the smaller normalized
\* event_index exactly when its original event_index is not the greater one:
\* a bucket ascends strictly if and only if the message gives its events in
\* ascending original order.
C31_BucketsInMessageOrder ==
  blockCall # NoCall =>
    \A k \in DOMAIN blockCall.txs :
      \A b \in BucketNames :
        LET bucket == blockCall.txs[k][b]
        IN \A i, j \in DOMAIN bucket :
             i < j =>
               /\ bucket[i].src < bucket[j].src
               /\ bucket[i].event_index # bucket[j].event_index
               /\ bucket[i].event_index < bucket[j].event_index
                    <=> Original(bucket[i]) <= Original(bucket[j])

\* A committed bundle with a bucket of three events of which the message
\* gave the first two in descending original order and the last two with
\* equal original indexes: their normalized indexes are 2, 0, 1.
C31_Witness ==
  /\ blockStore # << >>
  /\ \E k \in DOMAIN blockCall.txs :
       LET logs == blockCall.txs[k].contractLogEvents
       IN /\ Len(logs) = 3
          /\ Original(logs[1]) > Original(logs[2])
          /\ Original(logs[2]) = Original(logs[3])
          /\ logs[1].event_index = 2
          /\ logs[2].event_index = 0
          /\ logs[3].event_index = 1

\* C31 as claimed: in every bundle passed to the store, each bucket of a
\* transaction lists its events in strictly ascending normalized event_index
\* order.
C31_BucketsAscending ==
  blockCall # NoCall =>
    \A k \in DOMAIN blockCall.txs :
      \A b \in BucketNames :
        \A i, j \in DOMAIN blockCall.txs[k][b] :
          i < j => blockCall.txs[k][b][i].event_index
                     < blockCall.txs[k][b][j].event_index

----------------------------------------------------------------------------
\* Claims about name renewals (SpecBns).

\* The positions in the message of the committed name-renewal logs of a
\* transaction.
RenewalLogs(txid) ==
  { n \in Owned(txid) : /\ blockMsg.events[n].type = "ContractEvent"
                        /\ blockMsg.events[n].topic = "name-renewal" }

\* The name records of a sequence that come from a call, and from a log.
FromCall(names) == { n \in DOMAIN names : names[n].source = "contract_call" }

FromLog(names) == { n \in DOMAIN names : names[n].source = "contract_log" }

----------------------------------------------------------------------------
\* Claims about handleNewAttachmentMessage (SpecAttachments).

\* The places in the message of the attachments of the name system.
BnsPlaces ==
  { n \in DOMAIN attMsg :
      attMsg[n].contract_id \in { BnsContractIdentifier.mainnet,
                                  BnsContractIdentifier.testnet } }

\* The place in the message of the i-th attachment of the name system.
BnsPlace(i) ==
  CHOOSE n \in BnsPlaces : Cardinality({ m \in BnsPlaces : m <= n }) = i

====
